---- MODULE Spec2Model ----
(***************************************************************************)
(* The data-synchronisation and local-cache layer of the extension         *)
(* (store-api): session store, read-through collection cache with request  *)
(* coalescing, sync controller, identity resolver, template projection.    *)
(*                                                                         *)
(* Scheduling model.  JavaScript runs one call chain at a time.  A call    *)
(* chain (an entry of procs) is a stack of frames, one per function that   *)
(* is suspended at an await.  An action is either                          *)
(*  - the completion of an external operation (a browser.storage.local     *)
(*    call, an auth client call, a remote query) followed by the           *)
(*    synchronous code up to the next await of that frame, or              *)
(*  - a continuation (microtask): the code that runs in a caller after a   *)
(*    callee's promise has settled.                                        *)
(* Continuations run before any further external completion (the guard     *)
(* NoMicrotask), external operations complete in any order.  A storage     *)
(* operation takes effect at its completion.                               *)
(***************************************************************************)
EXTENDS Integers, Sequences, FiniteSets, TLC

VARIABLES
  storage,                 \* browser.storage.local: key -> cell
  collectionRequestQueue,  \* collection name -> id of the in-flight fetch, 0 = null
  fetches,                 \* call chain -> the promise chain its last cache miss created
  procs,                   \* the async call chains
  live,                    \* the auth client's live session: a user id or "none"
  sessionLoaded,           \* _sessionLoaded
  installs,                \* how many times auth.setSession installed a session
  remote,                  \* the remote store: memberships, plans, data version, failed queries
  events,                  \* trigger(): event name -> number of emissions
  clock,                   \* Date.now()
  lastSearchQuery,         \* lastSearchQuery
  calls,                   \* number of operations the client has started
  before                   \* the storage when the client's latest operation started

vars == <<storage, collectionRequestQueue, fetches, procs, live, sessionLoaded,
          installs, remote, events, clock, lastSearchQuery, calls, before>>

(***************************************************************************)
(* Bounds of the model.                                                    *)
(***************************************************************************)
MaxFetchCalls == 2
MaxVer == 1
MaxFaults == 1

(***************************************************************************)
(* Names and values.                                                       *)
(***************************************************************************)
SUPABASE_SESSION_KEY == "supabaseSession"
globalUserKey == "firebaseUser"
extensionDataKey == "extensionData"
LOGGED_OUT_ERR == "logged-out"

allCollections ==
  <<"users", "customers", "tags", "templatesOwned", "templatesShared", "templatesEveryone">>

Range(s) == {s[i] : i \in 1..Len(s)}

Collections == Range(allCollections)
Keys == Collections \cup {SUPABASE_SESSION_KEY, globalUserKey, extensionDataKey}

Users == {"u1", "u2"}
Customers == {"c1", "c2"}

\* storage cells
Absent == [t |-> "absent"]
Null == [t |-> "null"]
UserCell(id, customer) == [t |-> "user", id |-> id, customer |-> customer]
SessionCell(uid) == [t |-> "session", uid |-> uid]
ExtCell(words, lastSync) == [t |-> "ext", words |-> words, lastSync |-> lastSync]

\* JavaScript truthiness of a stored value
Truthy(cell) == cell.t \notin {"absent", "null"}

EmptyStorage == [k \in Keys |-> Absent]

EmptyUser == [id |-> "none", customer |-> "none"]
User(id, customer) == [id |-> id, customer |-> customer]

\* settled values of promises
NoRet == [k |-> "none"]
Ok == [k |-> "ok"]
OkData(d) == [k |-> "ok", data |-> d]
OkUser(u) == [k |-> "ok", user |-> u]
OkCust(c) == [k |-> "ok", cust |-> c]
OkBool(b) == [k |-> "ok", b |-> b]
OkFb(u) == [k |-> "ok", fb |-> u]
Err(e) == [k |-> "err", e |-> e]

EventNames ==
  {"users-updated", "customers-updated", "tags-updated", "templates-updated",
   "login", "logout"}
NoEvents == [e \in EventNames |-> 0]

(***************************************************************************)
(* The remote store.                                                       *)
(***************************************************************************)
\* the templates table: id -> row
Templates ==
  <<[id |-> 1, customer |-> "c1", owner |-> "u1", sharing |-> "none",
     shared_with |-> {}, created |-> 2],
    [id |-> 2, customer |-> "c1", owner |-> "u2", sharing |-> "everyone",
     shared_with |-> {}, created |-> 1],
    [id |-> 3, customer |-> "c1", owner |-> "u2", sharing |-> "custom",
     shared_with |-> {"u1"}, created |-> 3],
    [id |-> 4, customer |-> "c2", owner |-> "u1", sharing |-> "none",
     shared_with |-> {}, created |-> 1]>>

RECURSIVE SelectSeq2(_, _)
\* the rows of s whose index satisfies keep, in order, as [id, created]
SelectSeq2(s, keep) ==
  IF s = <<>> THEN <<>>
  ELSE LET h == s[1]
           rest == SelectSeq2(Tail(s), keep)
       IN IF h.id \in keep THEN <<[id |-> h.id, created |-> h.created]>> \o rest ELSE rest

templatesOwnedQuery(user) ==
  SelectSeq2(Templates,
    {r.id : r \in {x \in Range(Templates) :
        x.customer = user.customer /\ x.owner = user.id}})

templatesSharedQuery(user) ==
  SelectSeq2(Templates,
    {r.id : r \in {x \in Range(Templates) :
        /\ x.customer = user.customer /\ x.sharing = "custom"
        /\ user.id \in x.shared_with /\ x.owner # user.id}})

templatesEveryoneQuery(user) ==
  SelectSeq2(Templates,
    {r.id : r \in {x \in Range(Templates) :
        x.customer = user.customer /\ x.sharing = "everyone" /\ x.owner # user.id}})

\* the normalized mapping a successful query yields (refreshLocalData's data)
getCollectionQuery(name, user) ==
  CASE name = "templatesOwned" ->
         [t |-> "data", uid |-> user.id, cust |-> user.customer, ver |-> remote.ver,
          rows |-> templatesOwnedQuery(user)]
    [] name = "templatesShared" ->
         [t |-> "data", uid |-> user.id, cust |-> user.customer, ver |-> remote.ver,
          rows |-> templatesSharedQuery(user)]
    [] name = "templatesEveryone" ->
         [t |-> "data", uid |-> user.id, cust |-> user.customer, ver |-> remote.ver,
          rows |-> templatesEveryoneQuery(user)]
    [] name = "users" ->
         [t |-> "data", uid |-> user.id, customers |-> remote.members[user.id]]
    [] name = "customers" ->
         [t |-> "data", uid |-> user.id,
          plans |-> [c \in Range(remote.members[user.id]) |-> remote.plans[c]]]
    [] name = "tags" ->
         [t |-> "data", cust |-> user.customer, ver |-> remote.ver]

(***************************************************************************)
(* Call chains.                                                            *)
(***************************************************************************)
Front(s) == SubSeq(s, 1, Len(s) - 1)
Last(s) == s[Len(s)]

Running(p) == p \in 1..Len(procs) /\ procs[p].stack # <<>>
Top(p) == Last(procs[p].stack)
At(p, fn, pc) == Running(p) /\ Top(p).fn = fn /\ Top(p).pc = pc

Settled(f) == fetches[f].st \in {"ok", "err"}

\* the children of a Promise.all have all resolved, or one has rejected
KidsSettled(kids) ==
  \/ \A i \in 1..Len(kids) : procs[kids[i]].stack = <<>> /\ procs[kids[i]].ret.k = "ok"
  \/ \E i \in 1..Len(kids) : procs[kids[i]].stack = <<>> /\ procs[kids[i]].ret.k = "err"

\* a continuation of p is ready to run
Ready(p) ==
  /\ Running(p)
  /\ \/ procs[p].ret.k # "none"
     \/ Top(p).fn = "getCollection" /\ Top(p).pc = "wait" /\ Settled(Top(p).f)
     \/ Top(p).pc = "all" /\ KidsSettled(Top(p).kids)

NoMicrotask == \A p \in 1..Len(procs) : ~Ready(p)

\* p is suspended in fn at pc on an external operation that may complete now
Blocked(p, fn, pc) == At(p, fn, pc) /\ procs[p].ret.k = "none" /\ NoMicrotask
\* p resumes in fn at pc with the settled value of the callee it awaited
Resumed(p, fn, pc) == At(p, fn, pc) /\ procs[p].ret.k # "none"

NoFrame == [fn |-> "none", pc |-> "none"]

\* a call chain: what was called (op, arg), the chain that started it (par, 0 = the
\* client), its suspended frames, the settled value it holds, and, once it has
\* finished, the frame that returned last
Proc(op, arg, par, stack) ==
  [op |-> op, arg |-> arg, par |-> par, stack |-> stack, ret |-> NoRet, last |-> NoFrame]

\* the frame p's top frame returns r to its caller
Return(ps, p, r) ==
  [ps EXCEPT ![p].stack = Front(@), ![p].ret = r,
             ![p].last = IF Len(ps[p].stack) = 1 THEN ps[p].stack[1] ELSE @]
\* p's top frame becomes frame and suspends
Suspend(ps, p, frame) == [ps EXCEPT ![p].stack = Front(@) \o <<frame>>, ![p].ret = NoRet]
\* p's top frame becomes frame and awaits the call of callee
Call(ps, p, frame, callee) ==
  [ps EXCEPT ![p].stack = Front(@) \o <<frame>> \o callee, ![p].ret = NoRet]

Emit(ev, name) == [ev EXCEPT ![name] = @ + 1]

(***************************************************************************)
(* ExtensionData (extension-data.js): one persisted record; a field that   *)
(* was never written reads as undefined (-1).                              *)
(***************************************************************************)
Undefined == -1

getExtensionData(stor) ==
  IF Truthy(stor[extensionDataKey]) THEN stor[extensionDataKey]
  ELSE ExtCell(Undefined, Undefined)

\* setExtensionData({words}) and setExtensionData({lastSync}): merge into the record
setExtensionDataWords(stor, words) ==
  [stor EXCEPT ![extensionDataKey] = [getExtensionData(stor) EXCEPT !.words = words]]

setExtensionDataLastSync(stor, now) ==
  [stor EXCEPT ![extensionDataKey] = [getExtensionData(stor) EXCEPT !.lastSync = now]]

(***************************************************************************)
(* Local Cache: getCollection, refreshLocalData, updateCache.              *)
(***************************************************************************)
\* the call of getCollection: a request already in progress is returned as it is,
\* otherwise browser.storage.local.get is issued
getCollection(coll, user) ==
  [fn |-> "getCollection",
   pc |-> IF collectionRequestQueue[coll] # 0 THEN "wait" ELSE "get",
   coll |-> coll, user |-> user, f |-> collectionRequestQueue[coll]]

\* a variant that counts a read of the cache as a sync
GetCollectionHitStamps(p) ==
  /\ Blocked(p, "getCollection", "get")
  /\ Truthy(storage[Top(p).coll])
  /\ procs' = Return(procs, p, OkData(storage[Top(p).coll]))
  /\ storage' = setExtensionDataLastSync(storage, clock)
  /\ UNCHANGED <<collectionRequestQueue, fetches, live, sessionLoaded,
                 installs, remote, events, clock, lastSearchQuery, calls, before>>

\* the cache holds the collection: it is returned
GetCollectionHit(p) ==
  /\ Blocked(p, "getCollection", "get")
  /\ Truthy(storage[Top(p).coll])
  /\ procs' = Return(procs, p, OkData(storage[Top(p).coll]))
  /\ UNCHANGED <<storage, collectionRequestQueue, fetches, live, sessionLoaded,
                 installs, remote, events, clock, lastSearchQuery, calls, before>>

\* what the cache-miss branch stores as the in-flight marker
MarkInFlight(queue, coll, f) == [queue EXCEPT ![coll] = f]

\* cache miss: the remote query is issued and its promise chain becomes the marker
GetCollectionMiss(p) ==
  /\ Blocked(p, "getCollection", "get")
  /\ ~Truthy(storage[Top(p).coll])
  /\ LET fr == Top(p)
         chain == [coll |-> fr.coll, user |-> fr.user, st |-> "query", data |-> Absent,
                   now |-> 0]
     IN /\ fetches' = [f \in DOMAIN fetches \cup {p} |-> IF f = p THEN chain ELSE fetches[f]]
        /\ collectionRequestQueue' = MarkInFlight(collectionRequestQueue, fr.coll, p)
        /\ procs' = Suspend(procs, p, [fr EXCEPT !.pc = "wait", !.f = p])
  /\ UNCHANGED <<storage, live, sessionLoaded, installs, remote, events, clock,
                 lastSearchQuery, calls, before>>

\* the promise the caller holds has settled
GetCollectionSettled(p) ==
  /\ At(p, "getCollection", "wait")
  /\ Settled(Top(p).f)
  /\ LET f == fetches[Top(p).f]
     IN procs' = Return(procs, p, IF f.st = "ok" THEN OkData(f.data) ELSE Err("remote-error"))
  /\ UNCHANGED <<storage, collectionRequestQueue, fetches, live, sessionLoaded,
                 installs, remote, events, clock, lastSearchQuery, calls, before>>

\* the marker after the query's response arrived
ClearInFlight(queue, coll) == [queue EXCEPT ![coll] = 0]

\* the query resolves with data: marker cleared, refreshLocalData -> updateCache
\* issues browser.storage.local.set
QueryResolved(f) ==
  /\ f \in DOMAIN fetches
  /\ fetches[f].st = "query"
  /\ NoMicrotask
  /\ collectionRequestQueue' = ClearInFlight(collectionRequestQueue, fetches[f].coll)
  /\ fetches' = [fetches EXCEPT ![f].st = "set",
                                ![f].data = getCollectionQuery(fetches[f].coll, fetches[f].user)]
  /\ UNCHANGED <<storage, procs, live, sessionLoaded, installs, remote, events, clock,
                 lastSearchQuery, calls, before>>

\* a slip: the error is thrown before the marker is cleared
ClearInFlightOnErrorSkipped(queue, coll) == queue

\* the marker after the query's response carried an error
ClearInFlightOnError(queue, coll) == ClearInFlight(queue, coll)

\* the query resolves with res.error: marker cleared, the error is thrown
QueryFailed(f) ==
  /\ f \in DOMAIN fetches
  /\ fetches[f].st = "query"
  /\ NoMicrotask
  /\ remote.faults < MaxFaults
  /\ remote' = [remote EXCEPT !.faults = @ + 1]
  /\ collectionRequestQueue' = ClearInFlightOnError(collectionRequestQueue, fetches[f].coll)
  /\ fetches' = [fetches EXCEPT ![f].st = "err"]
  /\ UNCHANGED <<storage, procs, live, sessionLoaded, installs, events, clock,
                 lastSearchQuery, calls, before>>

eventName(coll) ==
  IF coll \in {"templatesOwned", "templatesShared", "templatesEveryone"}
  THEN "templates-updated"
  ELSE IF coll = "users" THEN "users-updated"
  ELSE IF coll = "customers" THEN "customers-updated"
  ELSE "tags-updated"

\* updateCache: the mapping is persisted, the notification emitted,
\* setExtensionData({lastSync: Date.now()}) issued
UpdateCacheSet(f) ==
  /\ f \in DOMAIN fetches
  /\ fetches[f].st = "set"
  /\ NoMicrotask
  /\ storage' = [storage EXCEPT ![fetches[f].coll] = fetches[f].data]
  /\ events' = Emit(events, eventName(fetches[f].coll))
  /\ fetches' = [fetches EXCEPT ![f].st = "stamp", ![f].now = clock]
  /\ UNCHANGED <<collectionRequestQueue, procs, live, sessionLoaded, installs, remote,
                 clock, lastSearchQuery, calls, before>>

\* updateCache: lastSync is stamped and the mapping returned
UpdateCacheStamp(f) ==
  /\ f \in DOMAIN fetches
  /\ fetches[f].st = "stamp"
  /\ NoMicrotask
  /\ storage' = setExtensionDataLastSync(storage, fetches[f].now)
  /\ fetches' = [fetches EXCEPT ![f].st = "ok"]
  /\ UNCHANGED <<collectionRequestQueue, procs, live, sessionLoaded, installs, remote,
                 events, clock, lastSearchQuery, calls, before>>

(***************************************************************************)
(* Session Store: saveSession, loadSession, onAuthStateChange.             *)
(***************************************************************************)
\* saveSession(session), as started by the onAuthStateChange subscription
saveSession(cell, par) ==
  Proc("saveSession", "", par, <<[fn |-> "saveSession", pc |-> "set", session |-> cell]>>)

SaveSessionSet(p) ==
  /\ Blocked(p, "saveSession", "set")
  /\ storage' = [storage EXCEPT ![SUPABASE_SESSION_KEY] = Top(p).session]
  /\ procs' = Return(procs, p, Ok)
  /\ UNCHANGED <<collectionRequestQueue, fetches, live, sessionLoaded, installs, remote,
                 events, clock, lastSearchQuery, calls, before>>

\* the call of loadSession: nothing to await once the flag is set
loadSession ==
  IF sessionLoaded THEN <<>> ELSE <<[fn |-> "loadSession", pc |-> "get", stored |-> Absent]>>

\* the persisted session has been read
LoadSessionGet(p) ==
  /\ Blocked(p, "loadSession", "get")
  /\ LET stored == storage[SUPABASE_SESSION_KEY]
     IN IF stored.t = "session"
        THEN /\ procs' = Suspend(procs, p, [Top(p) EXCEPT !.pc = "setSession", !.stored = stored])
             /\ UNCHANGED sessionLoaded
        ELSE /\ procs' = Return(procs, p, Ok)
             /\ sessionLoaded' = TRUE
  /\ UNCHANGED <<storage, collectionRequestQueue, fetches, live, installs, remote, events,
                 clock, lastSearchQuery, calls, before>>

\* auth.setSession installed the persisted session; the auth client notifies
LoadSessionInstalled(p) ==
  /\ Blocked(p, "loadSession", "setSession")
  /\ live' = Top(p).stored.uid
  /\ installs' = installs + 1
  /\ sessionLoaded' = TRUE
  /\ procs' = Append(Return(procs, p, Ok), saveSession(Top(p).stored, p))
  /\ UNCHANGED <<storage, collectionRequestQueue, fetches, remote, events, clock,
                 lastSearchQuery, calls, before>>

\* auth.setSession refused the persisted session (expired): the error is ignored
LoadSessionRefused(p) ==
  /\ Blocked(p, "loadSession", "setSession")
  /\ sessionLoaded' = TRUE
  /\ procs' = Return(procs, p, Ok)
  /\ UNCHANGED <<storage, collectionRequestQueue, fetches, live, installs, remote, events,
                 clock, lastSearchQuery, calls, before>>

(***************************************************************************)
(* Identity Resolver.                                                      *)
(***************************************************************************)
isLoggedOut(err) == err = LOGGED_OUT_ERR

\* the call of getFirebaseUser
getFirebaseUser ==
  IF loadSession = <<>>
  THEN <<[fn |-> "getFirebaseUser", pc |-> "getUser"]>>
  ELSE <<[fn |-> "getFirebaseUser", pc |-> "afterLoad"]>> \o loadSession

GetFirebaseUserAfterLoad(p) ==
  /\ Resumed(p, "getFirebaseUser", "afterLoad")
  /\ procs' = Suspend(procs, p, [Top(p) EXCEPT !.pc = "getUser"])
  /\ UNCHANGED <<storage, collectionRequestQueue, fetches, live, sessionLoaded, installs,
                 remote, events, clock, lastSearchQuery, calls, before>>

\* auth.getUser answers with the live session's user
GetFirebaseUserGetUser(p) ==
  /\ Blocked(p, "getFirebaseUser", "getUser")
  /\ procs' = Return(procs, p, OkFb(live))
  /\ UNCHANGED <<storage, collectionRequestQueue, fetches, live, sessionLoaded, installs,
                 remote, events, clock, lastSearchQuery, calls, before>>

\* the call of clearDataCache
clearDataCache == <<[fn |-> "clearDataCache", pc |-> "getExt", words |-> Undefined]>>

ClearDataCacheGetExt(p) ==
  /\ Blocked(p, "clearDataCache", "getExt")
  /\ procs' = Suspend(procs, p,
        [Top(p) EXCEPT !.pc = "clear", !.words = getExtensionData(storage).words])
  /\ UNCHANGED <<storage, collectionRequestQueue, fetches, live, sessionLoaded, installs,
                 remote, events, clock, lastSearchQuery, calls, before>>

ClearDataCacheClear(p) ==
  /\ Blocked(p, "clearDataCache", "clear")
  /\ storage' = EmptyStorage
  /\ procs' = Suspend(procs, p, [Top(p) EXCEPT !.pc = "setExt"])
  /\ UNCHANGED <<collectionRequestQueue, fetches, live, sessionLoaded, installs, remote,
                 events, clock, lastSearchQuery, calls, before>>

ClearDataCacheSetExt(p) ==
  /\ Blocked(p, "clearDataCache", "setExt")
  /\ storage' = setExtensionDataWords(storage, Top(p).words)
  /\ procs' = Return(procs, p, Ok)
  /\ UNCHANGED <<collectionRequestQueue, fetches, live, sessionLoaded, installs, remote,
                 events, clock, lastSearchQuery, calls, before>>

\* setSignedInUser(user)
setSignedInUser(stor, user) == [stor EXCEPT ![globalUserKey] = UserCell(user.id, user.customer)]

\* the call of getActiveCustomer(user)
getActiveCustomer(user) ==
  <<[fn |-> "getActiveCustomer", pc |-> "afterUsers", user |-> user],
    getCollection("users", User(user.id, "none"))>>

\* a variant that keeps a cached customer without looking at the memberships
ActiveCustomerKept(user, users) ==
  IF user.customer # "none" THEN user.customer
  ELSE IF users.customers = <<>> THEN "none" ELSE users.customers[1]

\* the customer getActiveCustomer settles on, given the users collection
ActiveCustomerOf(user, users) ==
  IF user.customer # "none" /\ user.customer \in Range(users.customers)
  THEN user.customer
  ELSE IF users.customers = <<>> THEN "none" ELSE users.customers[1]

GetActiveCustomerAfterUsers(p) ==
  /\ Resumed(p, "getActiveCustomer", "afterUsers")
  /\ LET r == procs[p].ret
         user == Top(p).user
     IN procs' = Return(procs, p,
          IF r.k = "err" THEN r
          ELSE IF r.data.uid # user.id THEN Err("type-error")
          ELSE OkCust(ActiveCustomerOf(user, r.data)))
  /\ UNCHANGED <<storage, collectionRequestQueue, fetches, live, sessionLoaded, installs,
                 remote, events, clock, lastSearchQuery, calls, before>>

\* the call of refetchCollections(collections): browser.storage.local.set is issued
collectionsToClear(collections) == IF Len(collections) > 0 THEN collections ELSE allCollections

refetchCollections(collections) ==
  <<[fn |-> "refetchCollections", pc |-> "inval", collections |-> collections,
     user |-> EmptyUser, free |-> "unknown", kids |-> <<>>]>>

\* the call of setActiveCustomer(customerId): auth.getUser is issued
setActiveCustomer(customerId, par) ==
  Proc("setActiveCustomer", customerId, par,
       <<[fn |-> "setActiveCustomer", pc |-> "getUser", customer |-> customerId, id |-> "none"]>>)

SetActiveCustomerGetUser(p) ==
  /\ Blocked(p, "setActiveCustomer", "getUser")
  /\ procs' = IF live = "none"
              THEN Return(procs, p, Err("type-error"))
              ELSE Suspend(procs, p, [Top(p) EXCEPT !.pc = "setUser", !.id = live])
  /\ UNCHANGED <<storage, collectionRequestQueue, fetches, live, sessionLoaded, installs,
                 remote, events, clock, lastSearchQuery, calls, before>>

\* the user is stored, then the tenant's collections are refetched (not awaited)
SetActiveCustomerSetUser(p) ==
  /\ Blocked(p, "setActiveCustomer", "setUser")
  /\ storage' = setSignedInUser(storage, User(Top(p).id, Top(p).customer))
  /\ procs' = Append(Return(procs, p, Ok),
        Proc("refetchCollections", "", p,
             refetchCollections(<<"templatesOwned", "templatesShared", "templatesEveryone", "tags">>)))
  /\ UNCHANGED <<collectionRequestQueue, fetches, live, sessionLoaded, installs, remote,
                 events, clock, lastSearchQuery, calls, before>>

\* the call of getSignedInUser: the cached user is read
getSignedInUser == <<[fn |-> "getSignedInUser", pc |-> "readUser", user |-> EmptyUser]>>

GetSignedInUserRead(p) ==
  /\ Blocked(p, "getSignedInUser", "readUser")
  /\ LET cell == storage[globalUserKey]
         user == IF Truthy(cell) THEN User(cell.id, cell.customer) ELSE EmptyUser
     IN procs' = Call(procs, p, [Top(p) EXCEPT !.pc = "afterFb", !.user = user], getFirebaseUser)
  /\ UNCHANGED <<storage, collectionRequestQueue, fetches, live, sessionLoaded, installs,
                 remote, events, clock, lastSearchQuery, calls, before>>

\* a variant that adopts a live identity other than the cached one
GetSignedInUserAfterFbAdopts(p) ==
  /\ Resumed(p, "getSignedInUser", "afterFb")
  /\ LET fb == procs[p].ret.fb
         user == Top(p).user
     IN /\ procs' =
             IF fb # "none"
             THEN IF user.id = fb
                  THEN Call(procs, p, [Top(p) EXCEPT !.pc = "afterCustomer"], getActiveCustomer(user))
                  ELSE Return(procs, p, Err(LOGGED_OUT_ERR))
             ELSE IF user.id # "none"
                  THEN Append(Suspend(procs, p, [Top(p) EXCEPT !.pc = "clearUser"]),
                              Proc("clearDataCache", "", p, clearDataCache))
                  ELSE Return(procs, p, Err(LOGGED_OUT_ERR))
        /\ storage' = IF fb # "none" /\ user.id # fb
                      THEN setSignedInUser(storage, User(fb, "none"))
                      ELSE storage
  /\ UNCHANGED <<collectionRequestQueue, fetches, live, sessionLoaded, installs,
                 remote, events, clock, lastSearchQuery, calls, before>>

\* the live user is known: match, mismatch, remote logout or nobody
GetSignedInUserAfterFb(p) ==
  /\ Resumed(p, "getSignedInUser", "afterFb")
  /\ LET fb == procs[p].ret.fb
         user == Top(p).user
     IN procs' =
          IF fb # "none"
          THEN IF user.id = fb
               THEN Call(procs, p, [Top(p) EXCEPT !.pc = "afterCustomer"], getActiveCustomer(user))
               ELSE Return(procs, p, Err(LOGGED_OUT_ERR))
          ELSE IF user.id # "none"
               THEN Append(Suspend(procs, p, [Top(p) EXCEPT !.pc = "clearUser"]),
                           Proc("clearDataCache", "", p, clearDataCache))
               ELSE Return(procs, p, Err(LOGGED_OUT_ERR))
  /\ UNCHANGED <<storage, collectionRequestQueue, fetches, live, sessionLoaded, installs,
                 remote, events, clock, lastSearchQuery, calls, before>>

\* automatic logout: the cached user is cleared, logout is emitted, logged-out thrown
GetSignedInUserClearUser(p) ==
  /\ Blocked(p, "getSignedInUser", "clearUser")
  /\ storage' = setSignedInUser(storage, EmptyUser)
  /\ events' = Emit(events, "logout")
  /\ procs' = Return(procs, p, Err(LOGGED_OUT_ERR))
  /\ UNCHANGED <<collectionRequestQueue, fetches, live, sessionLoaded, installs, remote,
                 clock, lastSearchQuery, calls, before>>

\* the active customer is known: a changed customer is stored (not awaited)
GetSignedInUserAfterCustomer(p) ==
  /\ Resumed(p, "getSignedInUser", "afterCustomer")
  /\ LET r == procs[p].ret
         user == Top(p).user
     IN procs' =
          IF r.k = "err" THEN Return(procs, p, r)
          ELSE IF user.customer # "none" /\ user.customer # r.cust
               THEN Append(Return(procs, p, OkUser(User(user.id, r.cust))),
                           setActiveCustomer(r.cust, p))
               ELSE Return(procs, p, OkUser(User(user.id, r.cust)))
  /\ UNCHANGED <<storage, collectionRequestQueue, fetches, live, sessionLoaded, installs,
                 remote, events, clock, lastSearchQuery, calls, before>>

\* the call of isFree(user)
isFree(user) ==
  <<[fn |-> "isFree", pc |-> "afterCustomers", user |-> user],
    getCollection("customers", user)>>

IsFreeAfterCustomers(p) ==
  /\ Resumed(p, "isFree", "afterCustomers")
  /\ LET r == procs[p].ret
         user == Top(p).user
     IN procs' = Return(procs, p,
          IF r.k = "err" THEN r
          ELSE IF user.customer \notin DOMAIN r.data.plans THEN Err("type-error")
          ELSE OkBool(r.data.plans[user.customer] = "free"))
  /\ UNCHANGED <<storage, collectionRequestQueue, fetches, live, sessionLoaded, installs,
                 remote, events, clock, lastSearchQuery, calls, before>>

(***************************************************************************)
(* Authentication: signin, getSession, logout.                             *)
(***************************************************************************)
\* the call of signin({email, password}) with the credentials of user id
signin(id) ==
  IF loadSession = <<>>
  THEN <<[fn |-> "signin", pc |-> "signIn", id |-> id, customer |-> "none"]>>
  ELSE <<[fn |-> "signin", pc |-> "afterLoad", id |-> id, customer |-> "none"]>> \o loadSession

SigninAfterLoad(p) ==
  /\ Resumed(p, "signin", "afterLoad")
  /\ procs' = Suspend(procs, p, [Top(p) EXCEPT !.pc = "signIn"])
  /\ UNCHANGED <<storage, collectionRequestQueue, fetches, live, sessionLoaded, installs,
                 remote, events, clock, lastSearchQuery, calls, before>>

\* signInWithPassword succeeds: the session is live, the auth client notifies the
\* subscription (saveSession, not awaited), and clearDataCache is awaited
SigninPassword(p) ==
  /\ Blocked(p, "signin", "signIn")
  /\ live' = Top(p).id
  /\ procs' = Append(Call(procs, p, [Top(p) EXCEPT !.pc = "afterClear"], clearDataCache),
                     saveSession(SessionCell(Top(p).id), p))
  /\ UNCHANGED <<storage, collectionRequestQueue, fetches, sessionLoaded, installs,
                 remote, events, clock, lastSearchQuery, calls, before>>

\* signInWithPassword answers with an error: signinError throws its message
SigninRejected(p) ==
  /\ Blocked(p, "signin", "signIn")
  /\ remote.faults < MaxFaults
  /\ remote' = [remote EXCEPT !.faults = @ + 1]
  /\ procs' = Return(procs, p, Err("signin-error"))
  /\ UNCHANGED <<storage, collectionRequestQueue, fetches, live, sessionLoaded, installs,
                 events, clock, lastSearchQuery, calls, before>>

\* the cache is cleared: setSignedInUser({id, customer: null}) is issued
SigninAfterClear(p) ==
  /\ Resumed(p, "signin", "afterClear")
  /\ procs' = Suspend(procs, p, [Top(p) EXCEPT !.pc = "setUser"])
  /\ UNCHANGED <<storage, collectionRequestQueue, fetches, live, sessionLoaded, installs,
                 remote, events, clock, lastSearchQuery, calls, before>>

SigninSetUser(p) ==
  /\ Blocked(p, "signin", "setUser")
  /\ storage' = setSignedInUser(storage, User(Top(p).id, "none"))
  /\ procs' = Call(procs, p, [Top(p) EXCEPT !.pc = "afterCustomer"],
                   getActiveCustomer(User(Top(p).id, "none")))
  /\ UNCHANGED <<collectionRequestQueue, fetches, live, sessionLoaded, installs, remote,
                 events, clock, lastSearchQuery, calls, before>>

\* the active customer is known, or its lookup failed and signinError throws
SigninAfterCustomer(p) ==
  /\ Resumed(p, "signin", "afterCustomer")
  /\ LET r == procs[p].ret
     IN procs' = IF r.k = "err" THEN Return(procs, p, Err("signin-error"))
                 ELSE Suspend(procs, p, [Top(p) EXCEPT !.pc = "setCustomer", !.customer = r.cust])
  /\ UNCHANGED <<storage, collectionRequestQueue, fetches, live, sessionLoaded, installs,
                 remote, events, clock, lastSearchQuery, calls, before>>

\* the user is stored with its customer, login is emitted, signin returns true
SigninSetCustomer(p) ==
  /\ Blocked(p, "signin", "setCustomer")
  /\ storage' = setSignedInUser(storage, User(Top(p).id, Top(p).customer))
  /\ events' = Emit(events, "login")
  /\ procs' = Return(procs, p, OkBool(TRUE))
  /\ UNCHANGED <<collectionRequestQueue, fetches, live, sessionLoaded, installs, remote,
                 clock, lastSearchQuery, calls, before>>

\* the call of getSession
getSession ==
  IF loadSession = <<>>
  THEN <<[fn |-> "getSession", pc |-> "getSession", id |-> "none"]>>
  ELSE <<[fn |-> "getSession", pc |-> "afterLoad", id |-> "none"]>> \o loadSession

GetSessionAfterLoad(p) ==
  /\ Resumed(p, "getSession", "afterLoad")
  /\ procs' = Suspend(procs, p, [Top(p) EXCEPT !.pc = "getSession"])
  /\ UNCHANGED <<storage, collectionRequestQueue, fetches, live, sessionLoaded, installs,
                 remote, events, clock, lastSearchQuery, calls, before>>

\* auth.getSession answers: with a session the cached user is read, without one
\* logged-out is thrown
GetSessionGet(p) ==
  /\ Blocked(p, "getSession", "getSession")
  /\ procs' = IF live # "none"
              THEN Suspend(procs, p, [Top(p) EXCEPT !.pc = "readUser", !.id = live])
              ELSE Return(procs, p, Err(LOGGED_OUT_ERR))
  /\ UNCHANGED <<storage, collectionRequestQueue, fetches, live, sessionLoaded, installs,
                 remote, events, clock, lastSearchQuery, calls, before>>

GetSessionReadUser(p) ==
  /\ Blocked(p, "getSession", "readUser")
  /\ procs' = IF Truthy(storage[globalUserKey])
              THEN Return(procs, p, OkBool(TRUE))
              ELSE Suspend(procs, p, [Top(p) EXCEPT !.pc = "setUser"])
  /\ UNCHANGED <<storage, collectionRequestQueue, fetches, live, sessionLoaded, installs,
                 remote, events, clock, lastSearchQuery, calls, before>>

GetSessionSetUser(p) ==
  /\ Blocked(p, "getSession", "setUser")
  /\ storage' = setSignedInUser(storage, User(Top(p).id, "none"))
  /\ procs' = Return(procs, p, OkBool(TRUE))
  /\ UNCHANGED <<collectionRequestQueue, fetches, live, sessionLoaded, installs, remote,
                 events, clock, lastSearchQuery, calls, before>>

\* the call of logout: auth.signOut is issued
logout == <<[fn |-> "logout", pc |-> "signOut"]>>

\* signOut ends the live session; the auth client notifies the subscription
\* (saveSession(null), not awaited); setSignedInUser({}) is issued
LogoutSignOut(p) ==
  /\ Blocked(p, "logout", "signOut")
  /\ live' = "none"
  /\ procs' = Append(Suspend(procs, p, [Top(p) EXCEPT !.pc = "setUser"]), saveSession(Null, p))
  /\ UNCHANGED <<storage, collectionRequestQueue, fetches, sessionLoaded, installs,
                 remote, events, clock, lastSearchQuery, calls, before>>

\* the cached user is emptied; clearDataCache is started and not awaited, logout is
\* emitted, and the set of a null session is issued
LogoutSetUser(p) ==
  /\ Blocked(p, "logout", "setUser")
  /\ storage' = setSignedInUser(storage, EmptyUser)
  /\ events' = Emit(events, "logout")
  /\ procs' = Append(Suspend(procs, p, [Top(p) EXCEPT !.pc = "setSession"]),
                     Proc("clearDataCache", "", p, clearDataCache))
  /\ UNCHANGED <<collectionRequestQueue, fetches, live, sessionLoaded, installs, remote,
                 clock, lastSearchQuery, calls, before>>

\* the null session is stored and logout returns true
LogoutSetSession(p) ==
  /\ Blocked(p, "logout", "setSession")
  /\ storage' = [storage EXCEPT ![SUPABASE_SESSION_KEY] = Null]
  /\ procs' = Return(procs, p, OkBool(TRUE))
  /\ UNCHANGED <<collectionRequestQueue, fetches, live, sessionLoaded, installs, remote,
                 events, clock, lastSearchQuery, calls, before>>

(***************************************************************************)
(* Sync Controller: refetchCollections.                                    *)
(***************************************************************************)
\* the keys refetchCollections sets to null
\* a variant that invalidates every collection, named or not
InvalidateAll(stor, names) == [k \in Keys |-> IF k \in Collections THEN Null ELSE stor[k]]

Invalidate(stor, names) == [k \in Keys |-> IF k \in Range(names) THEN Null ELSE stor[k]]

\* the named collections are invalidated, then the user is resolved
RefetchInvalidate(p) ==
  /\ Blocked(p, "refetchCollections", "inval")
  /\ storage' = Invalidate(storage, collectionsToClear(Top(p).collections))
  /\ procs' = Call(procs, p, [Top(p) EXCEPT !.pc = "afterUser"], getSignedInUser)
  /\ UNCHANGED <<collectionRequestQueue, fetches, live, sessionLoaded, installs, remote,
                 events, clock, lastSearchQuery, calls, before>>

\* a variant of the catch clause that rethrows every error
RefetchCatchRethrows(err) == err

\* what the catch clause of refetchCollections makes of an error
RefetchCatch(err) == IF isLoggedOut(err.e) THEN Ok ELSE err

RefetchAfterUser(p) ==
  /\ Resumed(p, "refetchCollections", "afterUser")
  /\ LET r == procs[p].ret
     IN procs' =
          IF r.k = "err" THEN Return(procs, p, RefetchCatch(r))
          ELSE Call(procs, p, [Top(p) EXCEPT !.pc = "afterFree", !.user = r.user], isFree(r.user))
  /\ UNCHANGED <<storage, collectionRequestQueue, fetches, live, sessionLoaded, installs,
                 remote, events, clock, lastSearchQuery, calls, before>>

\* a variant that does not skip the shared templates of free users
collectionsToRefetchAll(names, free) == names

\* the collections refetchCollections fetches again
collectionsToRefetch(names, free) ==
  IF free
  THEN SelectSeq(names, LAMBDA c : c \notin {"templatesShared", "templatesEveryone"})
  ELSE names

\* Promise.all(names.map(getCollection)): one call chain per collection
GetCollections(names, user, par) ==
  [i \in 1..Len(names) |-> Proc("getCollection", names[i], par, <<getCollection(names[i], user)>>)]

KidIds(names) == [i \in 1..Len(names) |-> Len(procs) + i]

RefetchAfterFree(p) ==
  /\ Resumed(p, "refetchCollections", "afterFree")
  /\ LET r == procs[p].ret
         names == collectionsToRefetch(collectionsToClear(Top(p).collections), r.b)
     IN procs' =
          IF r.k = "err" THEN Return(procs, p, RefetchCatch(r))
          ELSE Suspend(procs, p, [Top(p) EXCEPT !.pc = "all", !.kids = KidIds(names),
                                                !.free = IF r.b THEN "yes" ELSE "no"])
                 \o GetCollections(names, Top(p).user, p)
  /\ UNCHANGED <<storage, collectionRequestQueue, fetches, live, sessionLoaded, installs,
                 remote, events, clock, lastSearchQuery, calls, before>>

\* the settled value of Promise.all over the call chains kids
AllOf(kids) ==
  IF \E i \in 1..Len(kids) : procs[kids[i]].stack = <<>> /\ procs[kids[i]].ret.k = "err"
  THEN Err("remote-error")
  ELSE Ok

RefetchAllSettled(p) ==
  /\ At(p, "refetchCollections", "all")
  /\ KidsSettled(Top(p).kids)
  /\ procs' = Return(procs, p, AllOf(Top(p).kids))
  /\ UNCHANGED <<storage, collectionRequestQueue, fetches, live, sessionLoaded, installs,
                 remote, events, clock, lastSearchQuery, calls, before>>

\* a variant that also syncs when exactly the timeout has elapsed
SyncDueAtTimeout(now, lastSync, timeout) == lastSync # Undefined /\ now - lastSync >= timeout

\* new Date() - new Date(data.lastSync) > timeout: the date of undefined is invalid,
\* the difference is NaN and no comparison with NaN is true
SyncDue(now, lastSync, timeout) == lastSync # Undefined /\ now - lastSync > timeout

\* the call of autosync(timeout): getExtensionData is issued
autosync(timeout) ==
  <<[fn |-> "autosync", pc |-> "getExt", timeout |-> timeout, lastSync |-> Undefined,
     now |-> 0]>>

\* the extension data is read: past the timeout every collection is refetched
\* (refetchCollections with its default argument), otherwise autosync returns
AutosyncAfterExtensionData(p) ==
  /\ Blocked(p, "autosync", "getExt")
  /\ LET lastSync == getExtensionData(storage).lastSync
         frame == [Top(p) EXCEPT !.lastSync = lastSync, !.now = clock]
     IN procs' =
          IF SyncDue(clock, lastSync, Top(p).timeout)
          THEN Call(procs, p, [frame EXCEPT !.pc = "refetch"], refetchCollections(<<>>))
          ELSE Return(Suspend(procs, p, frame), p, Ok)
  /\ UNCHANGED <<storage, collectionRequestQueue, fetches, live, sessionLoaded, installs,
                 remote, events, clock, lastSearchQuery, calls, before>>

\* the promise of refetchCollections settles autosync's
AutosyncRefetched(p) ==
  /\ Resumed(p, "autosync", "refetch")
  /\ procs' = Return(procs, p, procs[p].ret)
  /\ UNCHANGED <<storage, collectionRequestQueue, fetches, live, sessionLoaded, installs,
                 remote, events, clock, lastSearchQuery, calls, before>>

(***************************************************************************)
(* Template/Tag Projection: getTemplates, getTags, searchTemplates.        *)
(***************************************************************************)
templatesFreeLimit == 30

OkTpl(list) == [k |-> "ok", templates |-> list]
OkTags(cell) == [k |-> "ok", tags |-> cell]
OkSearch(query, results) == [k |-> "ok", query |-> query, results |-> results]

\* the built-in templates and tags served to a signed-out client
getDefaultTemplates == <<[id |-> 0, created |-> Undefined, src |-> "default"]>>
defaultTags == [t |-> "data", cust |-> "none", ver |-> 0]

\* the rows of a fetched collection, each remembering the collection it came from
Tagged(rows, src) == [i \in 1..Len(rows) |-> [id |-> rows[i].id, created |-> rows[i].created, src |-> src]]

\* Object.assign of one more record into the merged object: the value of a key
\* already present is replaced in place, a new key is added last
AssignRow(acc, row) ==
  IF \E i \in 1..Len(acc) : acc[i].id = row.id
  THEN [i \in 1..Len(acc) |-> IF acc[i].id = row.id THEN row ELSE acc[i]]
  ELSE Append(acc, row)

RECURSIVE AssignRows(_, _)
AssignRows(acc, rows) ==
  IF rows = <<>> THEN acc ELSE AssignRows(AssignRow(acc, rows[1]), Tail(rows))

RECURSIVE ObjectAssign(_, _)
\* Object.assign({}, ...res)
ObjectAssign(acc, res) ==
  IF res = <<>> THEN acc ELSE ObjectAssign(AssignRows(acc, res[1]), Tail(res))

\* new Date(created_datetime || 0), as a number
DateOf(row) == IF row.created = Undefined THEN 0 ELSE row.created

\* row inserted into a sorted list behind the rows that do not compare greater
InsertByDate(sorted, row) ==
  LET n == Cardinality({i \in 1..Len(sorted) : DateOf(sorted[i]) <= DateOf(row)})
  IN SubSeq(sorted, 1, n) \o <<row>> \o SubSeq(sorted, n + 1, Len(sorted))

RECURSIVE SortFrom(_, _)
SortFrom(sorted, rest) ==
  IF rest = <<>> THEN sorted ELSE SortFrom(InsertByDate(sorted, rest[1]), Tail(rest))

\* a variant that leaves the list in key order
Unsorted(templates) == templates

\* templates.sort by creation date: stable, ascending
SortByCreated(templates) == SortFrom(<<>>, templates)

\* .slice(0, templatesFreeLimit)
SliceFree(templates) ==
  SubSeq(templates, 1, IF Len(templates) < templatesFreeLimit THEN Len(templates) ELSE templatesFreeLimit)

\* the list getTemplates builds from the fetched collections res
templateList(res, free) ==
  LET templates == ObjectAssign(<<>>, res)
  IN IF free THEN SliceFree(SortByCreated(templates)) ELSE templates

\* the collections getTemplates fetches
templateCollections(free) ==
  IF free THEN <<"templatesOwned">>
  ELSE <<"templatesOwned", "templatesShared", "templatesEveryone">>

\* the call of getTemplates
getTemplates ==
  <<[fn |-> "getTemplates", pc |-> "afterUser", user |-> EmptyUser, free |-> "unknown",
     kids |-> <<>>]>> \o getSignedInUser

\* what the catch clause of getTemplates makes of an error
TemplatesCatch(err) == IF isLoggedOut(err.e) THEN OkTpl(getDefaultTemplates) ELSE err

GetTemplatesAfterUser(p) ==
  /\ Resumed(p, "getTemplates", "afterUser")
  /\ LET r == procs[p].ret
     IN procs' =
          IF r.k = "err" THEN Return(procs, p, TemplatesCatch(r))
          ELSE Call(procs, p, [Top(p) EXCEPT !.pc = "afterFree", !.user = r.user], isFree(r.user))
  /\ UNCHANGED <<storage, collectionRequestQueue, fetches, live, sessionLoaded, installs,
                 remote, events, clock, lastSearchQuery, calls, before>>

GetTemplatesAfterFree(p) ==
  /\ Resumed(p, "getTemplates", "afterFree")
  /\ LET r == procs[p].ret
         names == templateCollections(r.b)
     IN procs' =
          IF r.k = "err" THEN Return(procs, p, TemplatesCatch(r))
          ELSE Suspend(procs, p, [Top(p) EXCEPT !.pc = "all", !.kids = KidIds(names),
                                                !.free = IF r.b THEN "yes" ELSE "no"])
                 \o GetCollections(names, Top(p).user, p)
  /\ UNCHANGED <<storage, collectionRequestQueue, fetches, live, sessionLoaded, installs,
                 remote, events, clock, lastSearchQuery, calls, before>>

\* the collections are there: merge, projection, and the free limit
GetTemplatesAllSettled(p) ==
  /\ At(p, "getTemplates", "all")
  /\ KidsSettled(Top(p).kids)
  /\ LET kids == Top(p).kids
         res == [i \in 1..Len(kids) |-> Tagged(procs[kids[i]].ret.data.rows, procs[kids[i]].arg)]
     IN procs' = Return(procs, p,
          IF AllOf(kids).k = "err" THEN TemplatesCatch(AllOf(kids))
          ELSE OkTpl(templateList(res, Top(p).free = "yes")))
  /\ UNCHANGED <<storage, collectionRequestQueue, fetches, live, sessionLoaded, installs,
                 remote, events, clock, lastSearchQuery, calls, before>>

\* the call of getTags
getTags == <<[fn |-> "getTags", pc |-> "afterUser"]>> \o getSignedInUser

\* what the catch clause of getTags makes of an error
TagsCatch(err) == IF isLoggedOut(err.e) THEN OkTags(defaultTags) ELSE err

GetTagsAfterUser(p) ==
  /\ Resumed(p, "getTags", "afterUser")
  /\ LET r == procs[p].ret
     IN procs' =
          IF r.k = "err" THEN Return(procs, p, TagsCatch(r))
          ELSE Call(procs, p, [Top(p) EXCEPT !.pc = "afterTags"],
                    <<getCollection("tags", r.user)>>)
  /\ UNCHANGED <<storage, collectionRequestQueue, fetches, live, sessionLoaded, installs,
                 remote, events, clock, lastSearchQuery, calls, before>>

GetTagsAfterTags(p) ==
  /\ Resumed(p, "getTags", "afterTags")
  /\ LET r == procs[p].ret
     IN procs' = Return(procs, p, IF r.k = "err" THEN TagsCatch(r) ELSE OkTags(r.data))
  /\ UNCHANGED <<storage, collectionRequestQueue, fetches, live, sessionLoaded, installs,
                 remote, events, clock, lastSearchQuery, calls, before>>

\* a variant that does not record the query
KeepQuery(last, query) == last

\* lastSearchQuery = query
RecordQuery(last, query) == query

SEARCH_CANCELED == "_SEARCH_CANCELED"

\* the call of searchTemplates(query) by the call chain p: the query is recorded,
\* getTemplates and getTags are started
searchTemplates(query, p) ==
  <<Proc("searchTemplates", query, 0,
         <<[fn |-> "searchTemplates", pc |-> "all", query |-> query, kids |-> <<p + 1, p + 2>>]>>),
    Proc("getTemplates", "", p, getTemplates),
    Proc("getTags", "", p, getTags)>>

\* what searchTemplates returns once templates and tags are there
SearchResult(query, last, templates) ==
  IF query # last THEN OkSearch(SEARCH_CANCELED, <<>>) ELSE OkSearch(query, templates)

\* templates and tags have resolved, or one of them has failed
SearchTemplatesSettled(p) ==
  /\ At(p, "searchTemplates", "all")
  /\ KidsSettled(Top(p).kids)
  /\ LET kids == Top(p).kids
         failed == {i \in 1..Len(kids) : procs[kids[i]].stack = <<>> /\ procs[kids[i]].ret.k = "err"}
     IN IF failed # {}
        THEN \E i \in failed : procs' = Return(procs, p, procs[kids[i]].ret)
        ELSE procs' = Return(procs, p,
               SearchResult(Top(p).query, lastSearchQuery, procs[kids[1]].ret.templates))
  /\ UNCHANGED <<storage, collectionRequestQueue, fetches, live, sessionLoaded, installs,
                 remote, events, clock, lastSearchQuery, calls, before>>

(***************************************************************************)
(* The environment.                                                        *)
(***************************************************************************)
\* the remote data of the tenant changes
RemoteDataChange ==
  /\ NoMicrotask
  /\ remote.ver < MaxVer
  /\ remote' = [remote EXCEPT !.ver = @ + 1]
  /\ UNCHANGED <<storage, collectionRequestQueue, fetches, procs, live, sessionLoaded,
                 installs, events, clock, lastSearchQuery, calls, before>>

\* time passes
Tick(max) ==
  /\ NoMicrotask
  /\ clock < max
  /\ clock' = clock + 1
  /\ UNCHANGED <<storage, collectionRequestQueue, fetches, procs, live, sessionLoaded,
                 installs, remote, events, lastSearchQuery, calls, before>>

(***************************************************************************)
(* Initial states.                                                         *)
(***************************************************************************)
Remote0 ==
  [members |-> [u \in Users |-> IF u = "u1" THEN <<"c1", "c2">> ELSE <<"c2">>],
   plans |-> [c \in Customers |-> IF c = "c1" THEN "paid" ELSE "free"],
   ver |-> 0, faults |-> 0]

\* everything but the storage, when the script has been loaded and the persisted
\* session has, or has not yet, been restored
Loaded(liveUser, r, restored) ==
  /\ collectionRequestQueue = [c \in Collections |-> 0]
  /\ fetches = <<>>
  /\ procs = <<>>
  /\ live = liveUser
  /\ sessionLoaded = restored
  /\ installs = 0
  /\ remote = r
  /\ events = NoEvents
  /\ clock = 1
  /\ lastSearchQuery = ""
  /\ calls = 0
  /\ before = EmptyStorage

\* the storage of a signed-in user u1 of customer c, collections not yet cached
SignedInStorage(c) ==
  [EmptyStorage EXCEPT ![globalUserKey] = UserCell("u1", c),
                       ![SUPABASE_SESSION_KEY] = SessionCell("u1"),
                       ![extensionDataKey] = ExtCell(5, 0)]

(***************************************************************************)
(* SpecFetch: concurrent getCollection calls of the signed-in user.        *)
(***************************************************************************)
FetchColls == {"tags", "templatesOwned"}

StartGetCollection(coll) ==
  /\ NoMicrotask
  /\ calls < MaxFetchCalls
  /\ calls' = calls + 1
  /\ before' = storage
  /\ procs' = Append(procs,
        Proc("getCollection", coll, 0, <<getCollection(coll, User("u1", "c1"))>>))
  /\ UNCHANGED <<storage, collectionRequestQueue, fetches, live, sessionLoaded,
                 installs, remote, events, clock, lastSearchQuery>>

InitFetch ==
  /\ Loaded("u1", Remote0, FALSE)
  /\ storage = [SignedInStorage("c1") EXCEPT
        !["templatesOwned"] = getCollectionQuery("templatesOwned", User("u1", "c1"))]

NextFetch ==
  \/ \E coll \in FetchColls : StartGetCollection(coll)
  \/ \E p \in 1..Len(procs) : GetCollectionHit(p)
  \/ \E p \in 1..Len(procs) : GetCollectionMiss(p)
  \/ \E p \in 1..Len(procs) : GetCollectionSettled(p)
  \/ \E f \in DOMAIN fetches : QueryResolved(f)
  \/ \E f \in DOMAIN fetches : QueryFailed(f)
  \/ \E f \in DOMAIN fetches : UpdateCacheSet(f)
  \/ \E f \in DOMAIN fetches : UpdateCacheStamp(f)
  \/ RemoteDataChange

SpecFetch == InitFetch /\ [][NextFetch]_vars

(***************************************************************************)
(* SpecSync: refetchCollections calls of the client, one after the other,  *)
(* after the session may have ended and memberships and plans changed.     *)
(***************************************************************************)
MaxSyncCalls == 2
MaxAllCalls == 1

\* no call chain is running and no promise chain is pending
Quiet ==
  /\ \A p \in 1..Len(procs) : procs[p].stack = <<>>
  /\ \A f \in DOMAIN fetches : Settled(f)

SyncArgs == {<<"users">>, <<"tags">>, <<"customers">>, <<"templatesShared", "templatesEveryone">>}
AllArgs == {<<>>, <<"tags">>, <<"customers">>, <<"templatesShared", "templatesEveryone">>}

\* the client calls refetchCollections once its previous call has run to completion;
\* the settled call chains and the notifications of the previous call are forgotten
StartRefetchCollections(collections, max) ==
  /\ Quiet
  /\ calls < max
  /\ calls' = calls + 1
  /\ before' = storage
  /\ procs' = <<Proc("refetchCollections", collections, 0, refetchCollections(collections))>>
  /\ fetches' = <<>>
  /\ events' = NoEvents
  /\ UNCHANGED <<storage, collectionRequestQueue, live, sessionLoaded, installs,
                 remote, clock, lastSearchQuery>>

\* the storage of user u1 of customer c after getTemplates and getTags have run:
\* a free customer's shared collections were never fetched
CachedStorage(c) ==
  [k \in Keys |->
     IF k \in Collections
     THEN IF Remote0.plans[c] = "free" /\ k \in {"templatesShared", "templatesEveryone"}
          THEN Absent
          ELSE getCollectionQuery(k, User("u1", c))
     ELSE SignedInStorage(c)[k]]

\* the storage of a client nobody is signed in to
SignedOutStorage == [EmptyStorage EXCEPT ![extensionDataKey] = ExtCell(5, 0)]

\* since the collections were cached, u1 may have left c1, c1 may have been downgraded
RemoteNow(members) ==
  {[Remote0 EXCEPT !.members["u1"] = m, !.plans["c1"] = pl] :
     m \in members, pl \in {"paid", "free"}}

InitSync ==
  /\ \E r \in RemoteNow({<<"c1", "c2">>, <<"c2">>}) : Loaded("none", r, FALSE)
  /\ storage \in {CachedStorage("c1"), CachedStorage("c2"), SignedOutStorage}

\* every step of refetchCollections and of what it calls
SyncSteps ==
  \/ \E p \in 1..Len(procs) : RefetchInvalidate(p)
  \/ \E p \in 1..Len(procs) : RefetchAfterUser(p)
  \/ \E p \in 1..Len(procs) : RefetchAfterFree(p)
  \/ \E p \in 1..Len(procs) : RefetchAllSettled(p)
  \/ \E p \in 1..Len(procs) : GetSignedInUserRead(p)
  \/ \E p \in 1..Len(procs) : GetSignedInUserAfterFb(p)
  \/ \E p \in 1..Len(procs) : GetSignedInUserClearUser(p)
  \/ \E p \in 1..Len(procs) : GetSignedInUserAfterCustomer(p)
  \/ \E p \in 1..Len(procs) : GetFirebaseUserAfterLoad(p)
  \/ \E p \in 1..Len(procs) : GetFirebaseUserGetUser(p)
  \/ \E p \in 1..Len(procs) : LoadSessionGet(p)
  \/ \E p \in 1..Len(procs) : LoadSessionInstalled(p)
  \/ \E p \in 1..Len(procs) : LoadSessionRefused(p)
  \/ \E p \in 1..Len(procs) : SaveSessionSet(p)
  \/ \E p \in 1..Len(procs) : GetActiveCustomerAfterUsers(p)
  \/ \E p \in 1..Len(procs) : IsFreeAfterCustomers(p)
  \/ \E p \in 1..Len(procs) : ClearDataCacheGetExt(p)
  \/ \E p \in 1..Len(procs) : ClearDataCacheClear(p)
  \/ \E p \in 1..Len(procs) : ClearDataCacheSetExt(p)
  \/ \E p \in 1..Len(procs) : GetCollectionHit(p)
  \/ \E p \in 1..Len(procs) : GetCollectionMiss(p)
  \/ \E p \in 1..Len(procs) : GetCollectionSettled(p)
  \/ \E f \in DOMAIN fetches : QueryResolved(f)
  \/ \E f \in DOMAIN fetches : QueryFailed(f)
  \/ \E f \in DOMAIN fetches : UpdateCacheSet(f)
  \/ \E f \in DOMAIN fetches : UpdateCacheStamp(f)

NextSync ==
  \/ \E collections \in SyncArgs : StartRefetchCollections(collections, MaxSyncCalls)
  \/ SyncSteps
  \/ \E p \in 1..Len(procs) : SetActiveCustomerGetUser(p)
  \/ \E p \in 1..Len(procs) : SetActiveCustomerSetUser(p)

SpecSync == InitSync /\ [][NextSync]_vars

(***************************************************************************)
(* SpecSyncAll: one refetchCollections call, the default of all six        *)
(* collections included, after plans may have changed.                     *)
(***************************************************************************)
InitSyncAll ==
  /\ \E r \in RemoteNow({<<"c1", "c2">>}) : Loaded("none", r, FALSE)
  /\ storage \in {CachedStorage("c1"), CachedStorage("c2"), SignedOutStorage}

NextSyncAll ==
  \/ \E collections \in AllArgs : StartRefetchCollections(collections, MaxAllCalls)
  \/ SyncSteps

SpecSyncAll == InitSyncAll /\ [][NextSyncAll]_vars

(***************************************************************************)
(* SpecSession: concurrent entry points that restore the persisted         *)
(* session of u1 when the script has just been loaded.                     *)
(***************************************************************************)
MaxSessionCalls == 2

SessionOps == {"getSignedInUser", "getSession"}

\* the client calls an entry point, whatever else is running
StartSessionOp(op) ==
  /\ calls < MaxSessionCalls
  /\ calls' = calls + 1
  /\ before' = storage
  /\ procs' = Append(procs, Proc(op, "", 0, IF op = "getSession" THEN getSession ELSE getSignedInUser))
  /\ UNCHANGED <<storage, collectionRequestQueue, fetches, live, sessionLoaded, installs,
                 remote, events, clock, lastSearchQuery>>

\* a session is persisted; the user is cached with its collections, or not at all
InitSession ==
  /\ Loaded("none", Remote0, FALSE)
  /\ storage \in {CachedStorage("c1"),
                  [SignedOutStorage EXCEPT ![SUPABASE_SESSION_KEY] = SessionCell("u1")]}

NextSession ==
  \/ \E op \in SessionOps : StartSessionOp(op)
  \/ \E p \in 1..Len(procs) : GetSignedInUserRead(p)
  \/ \E p \in 1..Len(procs) : GetSignedInUserAfterFb(p)
  \/ \E p \in 1..Len(procs) : GetSignedInUserAfterCustomer(p)
  \/ \E p \in 1..Len(procs) : GetFirebaseUserAfterLoad(p)
  \/ \E p \in 1..Len(procs) : GetFirebaseUserGetUser(p)
  \/ \E p \in 1..Len(procs) : GetSessionAfterLoad(p)
  \/ \E p \in 1..Len(procs) : GetSessionGet(p)
  \/ \E p \in 1..Len(procs) : GetSessionReadUser(p)
  \/ \E p \in 1..Len(procs) : GetSessionSetUser(p)
  \/ \E p \in 1..Len(procs) : LoadSessionGet(p)
  \/ \E p \in 1..Len(procs) : LoadSessionInstalled(p)
  \/ \E p \in 1..Len(procs) : SaveSessionSet(p)
  \/ \E p \in 1..Len(procs) : GetActiveCustomerAfterUsers(p)
  \/ \E p \in 1..Len(procs) : GetCollectionHit(p)

SpecSession == InitSession /\ [][NextSession]_vars

(***************************************************************************)
(* SpecAuth: signin, logout and getSignedInUser, each called when the      *)
(* previous call has returned (what it left running may still run).        *)
(***************************************************************************)
MaxAuthCalls == 2

\* the calls the client has made, in order
ClientCalls == SelectSeq([i \in 1..Len(procs) |-> i], LAMBDA q : procs[q].par = 0)

Returned == \A q \in 1..Len(procs) : procs[q].par = 0 => procs[q].stack = <<>>

StartAuthOp(op, stack) ==
  /\ Returned
  /\ calls < MaxAuthCalls
  /\ calls' = calls + 1
  /\ before' = storage
  /\ procs' = Append(procs, Proc(op, "", 0, stack))
  /\ UNCHANGED <<storage, collectionRequestQueue, fetches, live, sessionLoaded, installs,
                 remote, events, clock, lastSearchQuery>>

StartSignin == StartAuthOp("signin", signin("u1"))
StartLogout == StartAuthOp("logout", logout)
StartGetSignedInUser == StartAuthOp("getSignedInUser", getSignedInUser)

InitAuth ==
  /\ Loaded("none", Remote0, FALSE)
  /\ storage \in {CachedStorage("c1"), SignedOutStorage}

NextAuth ==
  \/ StartSignin
  \/ StartLogout
  \/ StartGetSignedInUser
  \/ \E p \in 1..Len(procs) : SigninAfterLoad(p)
  \/ \E p \in 1..Len(procs) : SigninPassword(p)
  \/ \E p \in 1..Len(procs) : SigninRejected(p)
  \/ \E p \in 1..Len(procs) : SigninAfterClear(p)
  \/ \E p \in 1..Len(procs) : SigninSetUser(p)
  \/ \E p \in 1..Len(procs) : SigninAfterCustomer(p)
  \/ \E p \in 1..Len(procs) : SigninSetCustomer(p)
  \/ \E p \in 1..Len(procs) : LogoutSignOut(p)
  \/ \E p \in 1..Len(procs) : LogoutSetUser(p)
  \/ \E p \in 1..Len(procs) : LogoutSetSession(p)
  \/ \E p \in 1..Len(procs) : GetSignedInUserRead(p)
  \/ \E p \in 1..Len(procs) : GetSignedInUserAfterFb(p)
  \/ \E p \in 1..Len(procs) : GetSignedInUserClearUser(p)
  \/ \E p \in 1..Len(procs) : GetSignedInUserAfterCustomer(p)
  \/ \E p \in 1..Len(procs) : GetFirebaseUserAfterLoad(p)
  \/ \E p \in 1..Len(procs) : GetFirebaseUserGetUser(p)
  \/ \E p \in 1..Len(procs) : LoadSessionGet(p)
  \/ \E p \in 1..Len(procs) : LoadSessionInstalled(p)
  \/ \E p \in 1..Len(procs) : LoadSessionRefused(p)
  \/ \E p \in 1..Len(procs) : SaveSessionSet(p)
  \/ \E p \in 1..Len(procs) : GetActiveCustomerAfterUsers(p)
  \/ \E p \in 1..Len(procs) : ClearDataCacheGetExt(p)
  \/ \E p \in 1..Len(procs) : ClearDataCacheClear(p)
  \/ \E p \in 1..Len(procs) : ClearDataCacheSetExt(p)
  \/ \E p \in 1..Len(procs) : GetCollectionHit(p)
  \/ \E p \in 1..Len(procs) : GetCollectionMiss(p)
  \/ \E p \in 1..Len(procs) : GetCollectionSettled(p)
  \/ \E f \in DOMAIN fetches : QueryResolved(f)
  \/ \E f \in DOMAIN fetches : QueryFailed(f)
  \/ \E f \in DOMAIN fetches : UpdateCacheSet(f)
  \/ \E f \in DOMAIN fetches : UpdateCacheStamp(f)

SpecAuth == InitAuth /\ [][NextAuth]_vars

(***************************************************************************)
(* SpecTemplates: one getTemplates call over a cache that holds up to      *)
(* MaxOwned owned templates.                                               *)
(***************************************************************************)
MaxOwned == 32

Patterns == {"ascending", "descending", "equal", "gaps"}

\* the creation date of the i-th of n owned templates; in "gaps" every third is missing
Created(pattern, i, n) ==
  CASE pattern = "ascending" -> i
    [] pattern = "descending" -> n + 1 - i
    [] pattern = "equal" -> 1
    [] pattern = "gaps" -> IF i % 3 = 0 THEN Undefined ELSE n + 1 - i

OwnedRows(n, pattern) == [i \in 1..n |-> [id |-> i, created |-> Created(pattern, i, n)]]

\* templates of other owners, with ids and dates that collide with owned ones
OtherRows(first) == <<[id |-> first, created |-> 0], [id |-> first + 1, created |-> 1]>>

TemplatesCell(c, rows) == [t |-> "data", uid |-> "u1", cust |-> c, ver |-> 0, rows |-> rows]

\* the cache of user u1 of customer c with n owned templates; the shared collections
\* are cached, or, for a free customer, possibly absent
TemplateStorages(c) ==
  {[CachedStorage(c) EXCEPT
       !["templatesOwned"] = TemplatesCell(c, OwnedRows(n, pattern)),
       !["templatesShared"] = IF shared THEN TemplatesCell(c, OtherRows(2)) ELSE Absent,
       !["templatesEveryone"] = IF shared THEN TemplatesCell(c, OtherRows(MaxOwned)) ELSE Absent] :
     n \in 0..MaxOwned, pattern \in Patterns,
     shared \in IF Remote0.plans[c] = "free" THEN BOOLEAN ELSE {TRUE}}

StartGetTemplates ==
  /\ calls = 0
  /\ calls' = calls + 1
  /\ before' = storage
  /\ procs' = Append(procs, Proc("getTemplates", "", 0, getTemplates))
  /\ UNCHANGED <<storage, collectionRequestQueue, fetches, live, sessionLoaded, installs,
                 remote, events, clock, lastSearchQuery>>

InitTemplates ==
  /\ Loaded("u1", Remote0, FALSE)
  /\ storage \in TemplateStorages("c1") \cup TemplateStorages("c2")

NextTemplates ==
  \/ StartGetTemplates
  \/ \E p \in 1..Len(procs) : GetTemplatesAfterUser(p)
  \/ \E p \in 1..Len(procs) : GetTemplatesAfterFree(p)
  \/ \E p \in 1..Len(procs) : GetTemplatesAllSettled(p)
  \/ \E p \in 1..Len(procs) : GetSignedInUserRead(p)
  \/ \E p \in 1..Len(procs) : GetSignedInUserAfterFb(p)
  \/ \E p \in 1..Len(procs) : GetSignedInUserAfterCustomer(p)
  \/ \E p \in 1..Len(procs) : GetFirebaseUserAfterLoad(p)
  \/ \E p \in 1..Len(procs) : GetFirebaseUserGetUser(p)
  \/ \E p \in 1..Len(procs) : LoadSessionGet(p)
  \/ \E p \in 1..Len(procs) : LoadSessionInstalled(p)
  \/ \E p \in 1..Len(procs) : SaveSessionSet(p)
  \/ \E p \in 1..Len(procs) : GetActiveCustomerAfterUsers(p)
  \/ \E p \in 1..Len(procs) : IsFreeAfterCustomers(p)
  \/ \E p \in 1..Len(procs) : GetCollectionHit(p)

SpecTemplates == InitTemplates /\ [][NextTemplates]_vars

(***************************************************************************)
(* SpecSearch: overlapping searchTemplates calls of the signed-in user.    *)
(***************************************************************************)
MaxSearchCalls == 2

Queries == {"a", "ab"}

\* the searches that have not returned
Searching == {p \in 1..Len(procs) : procs[p].op = "searchTemplates" /\ procs[p].stack # <<>>}

\* the client calls searchTemplates while at most one earlier search is in flight; a
\* call is made from a task of its own, when no continuation is pending
StartSearchTemplates(query) ==
  /\ NoMicrotask
  /\ Cardinality(Searching) <= 1
  /\ calls < MaxSearchCalls
  /\ calls' = calls + 1
  /\ before' = storage
  /\ lastSearchQuery' = RecordQuery(lastSearchQuery, query)
  /\ procs' = procs \o searchTemplates(query, Len(procs) + 1)
  /\ UNCHANGED <<storage, collectionRequestQueue, fetches, live, sessionLoaded, installs,
                 remote, events, clock>>

\* the session has been restored before; the collections are cached
InitSearch ==
  /\ Loaded("u1", Remote0, TRUE)
  /\ storage \in {CachedStorage("c2")}

NextSearch ==
  \/ \E query \in Queries : StartSearchTemplates(query)
  \/ \E p \in 1..Len(procs) : SearchTemplatesSettled(p)
  \/ \E p \in 1..Len(procs) : GetTemplatesAfterUser(p)
  \/ \E p \in 1..Len(procs) : GetTemplatesAfterFree(p)
  \/ \E p \in 1..Len(procs) : GetTemplatesAllSettled(p)
  \/ \E p \in 1..Len(procs) : GetTagsAfterUser(p)
  \/ \E p \in 1..Len(procs) : GetTagsAfterTags(p)
  \/ \E p \in 1..Len(procs) : GetSignedInUserRead(p)
  \/ \E p \in 1..Len(procs) : GetSignedInUserAfterFb(p)
  \/ \E p \in 1..Len(procs) : GetSignedInUserAfterCustomer(p)
  \/ \E p \in 1..Len(procs) : GetFirebaseUserGetUser(p)
  \/ \E p \in 1..Len(procs) : GetActiveCustomerAfterUsers(p)
  \/ \E p \in 1..Len(procs) : IsFreeAfterCustomers(p)
  \/ \E p \in 1..Len(procs) : GetCollectionHit(p)

SpecSearch == InitSearch /\ [][NextSearch]_vars

(***************************************************************************)
(* SpecAutosync: autosync calls of the signed-in user u1, one after the    *)
(* other, while time passes.  The cache was filled at time 0, or the cache *)
(* was cleared at sign-in and only the words count was restored.           *)
(***************************************************************************)
MaxAutosyncCalls == 2
MaxClock == 3

Timeouts == {1, 2}

StartAutosync(timeout) ==
  /\ Quiet
  /\ calls < MaxAutosyncCalls
  /\ calls' = calls + 1
  /\ before' = storage
  /\ procs' = <<Proc("autosync", timeout, 0, autosync(timeout))>>
  /\ fetches' = <<>>
  /\ events' = NoEvents
  /\ UNCHANGED <<storage, collectionRequestQueue, live, sessionLoaded, installs,
                 remote, clock, lastSearchQuery>>

\* the storage right after u1 signed in to customer c: the cache was cleared and
\* the words count written back
ClearedStorage(c) ==
  setExtensionDataWords(
    [EmptyStorage EXCEPT ![globalUserKey] = UserCell("u1", c),
                         ![SUPABASE_SESSION_KEY] = SessionCell("u1")], 5)

InitAutosync ==
  /\ Loaded("u1", Remote0, TRUE)
  /\ storage \in {CachedStorage("c2"), ClearedStorage("c2")}

NextAutosync ==
  \/ \E timeout \in Timeouts : StartAutosync(timeout)
  \/ \E p \in 1..Len(procs) : AutosyncAfterExtensionData(p)
  \/ \E p \in 1..Len(procs) : AutosyncRefetched(p)
  \/ Tick(MaxClock)
  \/ \E p \in 1..Len(procs) : RefetchInvalidate(p)
  \/ \E p \in 1..Len(procs) : RefetchAfterUser(p)
  \/ \E p \in 1..Len(procs) : RefetchAfterFree(p)
  \/ \E p \in 1..Len(procs) : RefetchAllSettled(p)
  \/ \E p \in 1..Len(procs) : GetSignedInUserRead(p)
  \/ \E p \in 1..Len(procs) : GetSignedInUserAfterFb(p)
  \/ \E p \in 1..Len(procs) : GetSignedInUserAfterCustomer(p)
  \/ \E p \in 1..Len(procs) : GetFirebaseUserGetUser(p)
  \/ \E p \in 1..Len(procs) : GetActiveCustomerAfterUsers(p)
  \/ \E p \in 1..Len(procs) : IsFreeAfterCustomers(p)
  \/ \E p \in 1..Len(procs) : GetCollectionHit(p)
  \/ \E p \in 1..Len(procs) : GetCollectionMiss(p)
  \/ \E p \in 1..Len(procs) : GetCollectionSettled(p)
  \/ \E f \in DOMAIN fetches : QueryResolved(f)
  \/ \E f \in DOMAIN fetches : QueryFailed(f)
  \/ \E f \in DOMAIN fetches : UpdateCacheSet(f)
  \/ \E f \in DOMAIN fetches : UpdateCacheStamp(f)

SpecAutosync == InitAutosync /\ [][NextAutosync]_vars

(***************************************************************************)
(* SpecCache: the getCollection calls of SpecFetch while time passes.      *)
(***************************************************************************)
NextCache ==
  \/ NextFetch
  \/ Tick(MaxClock)

SpecCache == InitFetch /\ [][NextCache]_vars

(***************************************************************************)
(* SpecIdentity: getSignedInUser calls of the client, one after the other, *)
(* with a live session of u1 or u2 and a cached user u1 whose customer may *)
(* be unset (as getSession stores it) or no longer a membership.           *)
(***************************************************************************)
MaxIdentityCalls == 2

StartIdentityCall ==
  /\ Quiet
  /\ calls < MaxIdentityCalls
  /\ calls' = calls + 1
  /\ before' = storage
  /\ procs' = <<Proc("getSignedInUser", "", 0, getSignedInUser)>>
  /\ fetches' = <<>>
  /\ events' = NoEvents
  /\ UNCHANGED <<storage, collectionRequestQueue, live, sessionLoaded, installs,
                 remote, clock, lastSearchQuery>>

\* the cached users if u1 still were a member of both customers
UsersCell == [t |-> "data", uid |-> "u1", customers |-> <<"c1", "c2">>]

\* a storage with the cached user cell, the users collection cached or invalidated,
\* and the tags of the cached customer
IdentityStorage(cell, users) ==
  [k \in Keys |->
     IF k = globalUserKey THEN cell
     ELSE IF k = "users" THEN users
     ELSE IF k = "tags" /\ Truthy(cell) /\ cell.customer # "none"
          THEN [t |-> "data", cust |-> cell.customer, ver |-> 0]
     ELSE SignedInStorage("c1")[k]]

InitIdentity ==
  /\ \E liveUser \in Users, m \in {<<"c1", "c2">>, <<"c2">>} :
       Loaded(liveUser, [Remote0 EXCEPT !.members["u1"] = m], TRUE)
  /\ \E cell \in {UserCell("u1", c) : c \in Customers \cup {"none"}} \cup {Absent},
        users \in {UsersCell, Null} :
       storage = IdentityStorage(cell, users)

NextIdentity ==
  \/ StartIdentityCall
  \/ \E p \in 1..Len(procs) : GetSignedInUserRead(p)
  \/ \E p \in 1..Len(procs) : GetSignedInUserAfterFb(p)
  \/ \E p \in 1..Len(procs) : GetSignedInUserAfterCustomer(p)
  \/ \E p \in 1..Len(procs) : GetFirebaseUserGetUser(p)
  \/ \E p \in 1..Len(procs) : GetActiveCustomerAfterUsers(p)
  \/ \E p \in 1..Len(procs) : SetActiveCustomerGetUser(p)
  \/ \E p \in 1..Len(procs) : SetActiveCustomerSetUser(p)
  \/ \E p \in 1..Len(procs) : RefetchInvalidate(p)
  \/ \E p \in 1..Len(procs) : RefetchAfterUser(p)
  \/ \E p \in 1..Len(procs) : RefetchAfterFree(p)
  \/ \E p \in 1..Len(procs) : RefetchAllSettled(p)
  \/ \E p \in 1..Len(procs) : IsFreeAfterCustomers(p)
  \/ \E p \in 1..Len(procs) : GetCollectionHit(p)
  \/ \E p \in 1..Len(procs) : GetCollectionMiss(p)
  \/ \E p \in 1..Len(procs) : GetCollectionSettled(p)
  \/ \E f \in DOMAIN fetches : QueryResolved(f)
  \/ \E f \in DOMAIN fetches : QueryFailed(f)
  \/ \E f \in DOMAIN fetches : UpdateCacheSet(f)
  \/ \E f \in DOMAIN fetches : UpdateCacheStamp(f)

SpecIdentity == InitIdentity /\ [][NextIdentity]_vars

(***************************************************************************)
(* SpecSwitch: the signed-in user u1 of customer c1 opens the tags while   *)
(* switching to another customer: getTags and setActiveCustomer overlap.   *)
(***************************************************************************)
MaxSwitchCalls == 2

StartGetTags ==
  /\ NoMicrotask
  /\ calls < MaxSwitchCalls
  /\ \A p \in 1..Len(procs) : procs[p].op # "getTags"
  /\ calls' = calls + 1
  /\ before' = storage
  /\ procs' = Append(procs, Proc("getTags", "", 0, getTags))
  /\ UNCHANGED <<storage, collectionRequestQueue, fetches, live, sessionLoaded, installs,
                 remote, events, clock, lastSearchQuery>>

StartSetActiveCustomer(customerId) ==
  /\ NoMicrotask
  /\ calls < MaxSwitchCalls
  /\ \A p \in 1..Len(procs) : procs[p].op # "setActiveCustomer"
  /\ calls' = calls + 1
  /\ before' = storage
  /\ procs' = Append(procs, setActiveCustomer(customerId, 0))
  /\ UNCHANGED <<storage, collectionRequestQueue, fetches, live, sessionLoaded, installs,
                 remote, events, clock, lastSearchQuery>>

\* users and customers are cached, the collections of the customer are not yet
InitSwitch ==
  /\ Loaded("u1", Remote0, TRUE)
  /\ storage = [SignedInStorage("c1") EXCEPT
        !["users"] = getCollectionQuery("users", User("u1", "c1")),
        !["customers"] = getCollectionQuery("customers", User("u1", "c1"))]

NextSwitch ==
  \/ StartGetTags
  \/ StartSetActiveCustomer("c2")
  \/ \E p \in 1..Len(procs) : GetTagsAfterUser(p)
  \/ \E p \in 1..Len(procs) : GetTagsAfterTags(p)
  \/ \E p \in 1..Len(procs) : SetActiveCustomerGetUser(p)
  \/ \E p \in 1..Len(procs) : SetActiveCustomerSetUser(p)
  \/ \E p \in 1..Len(procs) : GetSignedInUserRead(p)
  \/ \E p \in 1..Len(procs) : GetSignedInUserAfterFb(p)
  \/ \E p \in 1..Len(procs) : GetSignedInUserAfterCustomer(p)
  \/ \E p \in 1..Len(procs) : GetFirebaseUserGetUser(p)
  \/ \E p \in 1..Len(procs) : GetActiveCustomerAfterUsers(p)
  \/ \E p \in 1..Len(procs) : RefetchInvalidate(p)
  \/ \E p \in 1..Len(procs) : RefetchAfterUser(p)
  \/ \E p \in 1..Len(procs) : RefetchAfterFree(p)
  \/ \E p \in 1..Len(procs) : RefetchAllSettled(p)
  \/ \E p \in 1..Len(procs) : IsFreeAfterCustomers(p)
  \/ \E p \in 1..Len(procs) : GetCollectionHit(p)
  \/ \E p \in 1..Len(procs) : GetCollectionMiss(p)
  \/ \E p \in 1..Len(procs) : GetCollectionSettled(p)
  \/ \E f \in DOMAIN fetches : QueryResolved(f)
  \/ \E f \in DOMAIN fetches : QueryFailed(f)
  \/ \E f \in DOMAIN fetches : UpdateCacheSet(f)
  \/ \E f \in DOMAIN fetches : UpdateCacheStamp(f)

SpecSwitch == InitSwitch /\ [][NextSwitch]_vars

(***************************************************************************)
(* SpecSignOut: the signed-in user u1 opens the tags and logs out, in any  *)
(* order and overlapping.                                                  *)
(***************************************************************************)
StartLogoutNow ==
  /\ NoMicrotask
  /\ calls < MaxSwitchCalls
  /\ \A p \in 1..Len(procs) : procs[p].op # "logout"
  /\ calls' = calls + 1
  /\ before' = storage
  /\ procs' = Append(procs, Proc("logout", "", 0, logout))
  /\ UNCHANGED <<storage, collectionRequestQueue, fetches, live, sessionLoaded, installs,
                 remote, events, clock, lastSearchQuery>>

NextSignOut ==
  \/ StartGetTags
  \/ StartLogoutNow
  \/ \E p \in 1..Len(procs) : GetTagsAfterUser(p)
  \/ \E p \in 1..Len(procs) : GetTagsAfterTags(p)
  \/ \E p \in 1..Len(procs) : LogoutSignOut(p)
  \/ \E p \in 1..Len(procs) : LogoutSetUser(p)
  \/ \E p \in 1..Len(procs) : LogoutSetSession(p)
  \/ \E p \in 1..Len(procs) : SaveSessionSet(p)
  \/ \E p \in 1..Len(procs) : ClearDataCacheGetExt(p)
  \/ \E p \in 1..Len(procs) : ClearDataCacheClear(p)
  \/ \E p \in 1..Len(procs) : ClearDataCacheSetExt(p)
  \/ \E p \in 1..Len(procs) : GetSignedInUserRead(p)
  \/ \E p \in 1..Len(procs) : GetSignedInUserAfterFb(p)
  \/ \E p \in 1..Len(procs) : GetSignedInUserClearUser(p)
  \/ \E p \in 1..Len(procs) : GetSignedInUserAfterCustomer(p)
  \/ \E p \in 1..Len(procs) : GetFirebaseUserGetUser(p)
  \/ \E p \in 1..Len(procs) : GetActiveCustomerAfterUsers(p)
  \/ \E p \in 1..Len(procs) : GetCollectionHit(p)
  \/ \E p \in 1..Len(procs) : GetCollectionMiss(p)
  \/ \E p \in 1..Len(procs) : GetCollectionSettled(p)
  \/ \E f \in DOMAIN fetches : QueryResolved(f)
  \/ \E f \in DOMAIN fetches : QueryFailed(f)
  \/ \E f \in DOMAIN fetches : UpdateCacheSet(f)
  \/ \E f \in DOMAIN fetches : UpdateCacheStamp(f)

SpecSignOut == InitSwitch /\ [][NextSignOut]_vars

(***************************************************************************)
(* Claims checked under SpecFetch.                                         *)
(***************************************************************************)
InFlight(coll) == {f \in DOMAIN fetches : fetches[f].coll = coll /\ fetches[f].st = "query"}

\* C1: for every collection name, concurrent getCollection calls starting from a
\* cache miss lead to one remote query: at no time are two remote fetches for the
\* same collection name outstanding.
C1_SingleFetchInFlight == \A coll \in Collections : Cardinality(InFlight(coll)) <= 1

\* C2: when the remote query fails, the in-flight marker of the collection is
\* cleared by the same step (it never names the failed fetch, so the next
\* getCollection issues a new query), nothing is written to storage, the failed
\* chain stays failed, and every caller that awaited it receives the error.
C2_MarkerNeverFailed ==
  \A coll \in Collections :
    collectionRequestQueue[coll] # 0 => fetches[collectionRequestQueue[coll]].st # "err"

C2_FailureStep ==
  \A f \in DOMAIN fetches :
    /\ (fetches[f].st = "query" /\ fetches'[f].st = "err") =>
          /\ collectionRequestQueue'[fetches[f].coll] = 0
          /\ storage' = storage
    /\ fetches[f].st = "err" => fetches'[f] = fetches[f]

C2_ErrorPropagates ==
  \A p \in 1..Len(procs) :
    (/\ At(p, "getCollection", "wait")
     /\ fetches[Top(p).f].st = "err"
     /\ procs'[p] # procs[p]) => procs'[p].ret = Err("remote-error")

C2_FailedFetchClearsMarker ==
  []C2_MarkerNeverFailed /\ [][C2_FailureStep /\ C2_ErrorPropagates]_vars

\* a query failed, its caller got the error, and a later call for the same name
\* issued a new query
C2_Witness ==
  \E f \in DOMAIN fetches : \E g \in DOMAIN fetches :
    /\ f < g
    /\ fetches[f].coll = fetches[g].coll
    /\ fetches[f].st = "err"
    /\ procs[f].stack = <<>>
    /\ procs[f].ret = Err("remote-error")
    /\ storage[fetches[f].coll] = Absent

\* the client's refetchCollections(arg) and everything it started have completed
RefetchDone(arg) ==
  /\ Len(procs) > 0
  /\ procs[1].op = "refetchCollections"
  /\ procs[1].arg = arg
  /\ Quiet

\* the call chains started, directly or not, by the client's call
Started(op) == {q \in 1..Len(procs) : procs[q].op = op /\ procs[q].par # 0}

\* C7 as stated: when refetchCollections(['tags']) and everything it starts have
\* completed, the cache entries of users, customers, templatesOwned, templatesShared
\* and templatesEveryone are what they were before the call.
C7_OthersUntouched ==
  RefetchDone(<<"tags">>) =>
    \A c \in Collections \ {"tags"} : storage[c] = before[c]

\* C7 amended: when refetchCollections(names), names non-empty, and everything it
\* starts have completed, the cache entry of a collection that is not named is what
\* it was before the call, unless the user resolution of the call cleared the cache
\* (automatic logout), replaced a stale active customer (which refetches the template
\* collections and the tags), or fetched a users or customers entry that was missing.
C7_OnlyNamedInvalidated ==
  \A arg \in SyncArgs :
    RefetchDone(arg) =>
      \A c \in Collections \ Range(arg) :
        \/ storage[c] = before[c]
        \/ Started("clearDataCache") # {}
        \/ /\ Started("setActiveCustomer") # {}
           /\ c \in {"templatesOwned", "templatesShared", "templatesEveryone", "tags"}
        \/ /\ c \in {"users", "customers"}
           /\ ~Truthy(before[c])
           /\ Truthy(storage[c])

\* refetchCollections(['tags']) of a signed-in paid user has fetched the tags again
\* and the five other entries, all cached, are as before
C7_Witness ==
  /\ RefetchDone(<<"tags">>)
  /\ procs[1].ret = Ok
  /\ procs[1].last.free = "no"
  /\ events["tags-updated"] > 0
  /\ Truthy(storage["tags"])
  /\ \A c \in Collections \ {"tags"} : Truthy(before[c]) /\ storage[c] = before[c]

\* the client's refetchCollections call found the active customer on the free plan
FreeRefetch ==
  /\ Len(procs) > 0
  /\ procs[1].op = "refetchCollections"
  /\ (IF procs[1].stack = <<>> THEN procs[1].last ELSE procs[1].stack[1]).free = "yes"

SharedTemplates == {"templatesShared", "templatesEveryone"}

C8_NoSharedQuery ==
  FreeRefetch => \A f \in DOMAIN fetches : fetches[f].coll \notin SharedTemplates

C8_OthersRefetched ==
  (FreeRefetch /\ Quiet /\ procs[1].ret = Ok) =>
    \A c \in Range(collectionsToClear(procs[1].arg)) \ SharedTemplates : Truthy(storage[c])

LoggedOutRefetch(p) ==
  /\ p \in 1..Len(procs)
  /\ procs[p].op = "refetchCollections"
  /\ procs[p].par = 0
  /\ \/ Resumed(p, "refetchCollections", "afterUser") /\ procs[p].ret = Err(LOGGED_OUT_ERR)
     \/ procs[p].stack = <<>> /\ procs[p].last.pc = "afterUser" /\ procs[p].ret = Ok

C10_NoQueryNoPopulate ==
  \A p \in 1..Len(procs) :
    LoggedOutRefetch(p) =>
      /\ DOMAIN fetches = {}
      /\ \A c \in Collections : Truthy(storage[c]) => storage[c] = before[c]
      /\ \A e \in EventNames \ {"logout"} : events[e] = 0

C10_CatchStep ==
  \A p \in 1..Len(procs) :
    (/\ procs[p].op = "refetchCollections"
     /\ Running(p)
     /\ Len(procs[p].stack) = 1
     /\ procs[p].ret.k = "err"
     /\ procs'[p] # procs[p]) =>
        /\ procs'[p].stack = <<>>
        /\ procs'[p].ret = IF procs[p].ret.e = LOGGED_OUT_ERR THEN Ok ELSE procs[p].ret

C10_BatchStep ==
  \A p \in 1..Len(procs) :
    (/\ At(p, "refetchCollections", "all")
     /\ \E i \in 1..Len(Top(p).kids) :
          procs[Top(p).kids[i]].stack = <<>> /\ procs[Top(p).kids[i]].ret.k = "err"
     /\ procs'[p] # procs[p]) =>
        /\ procs'[p].stack = <<>>
        /\ procs'[p].ret.k = "err"

\* C10: when the user resolution of refetchCollections fails with LoggedOut the call
\* resolves successfully, no query has been issued and no collection has been
\* populated; a failure of another kind, of the user resolution, of the plan lookup
\* or of a collection fetch, is the result of the call.
C10_LoggedOutIsNoOp ==
  []C10_NoQueryNoPopulate /\ [][C10_CatchStep /\ C10_BatchStep]_vars

\* a refetchCollections call of a signed-out client has resolved successfully
C10_Witness ==
  \E p \in 1..Len(procs) :
    /\ LoggedOutRefetch(p)
    /\ procs[p].stack = <<>>
    /\ Quiet
    /\ \E c \in Collections : before[c] # storage[c]

\* the client's latest call
Latest == procs[ClientCalls[Len(ClientCalls)]]

LogoutReturned == calls > 0 /\ Latest.op = "logout" /\ Latest.stack = <<>>

\* C3: once logout() has returned, the persisted words count is what it was before
\* the logout and every collection cache entry is empty; a getSignedInUser() called
\* next fails with logged-out.
C3_LogoutLeavesCleanCache ==
  /\ LogoutReturned =>
       /\ getExtensionData(storage).words = getExtensionData(before).words
       /\ \A c \in Collections : ~Truthy(storage[c])
  /\ \A i \in 2..Len(ClientCalls) :
       (/\ procs[ClientCalls[i - 1]].op = "logout"
        /\ procs[ClientCalls[i]].op = "getSignedInUser"
        /\ procs[ClientCalls[i]].stack = <<>>) => procs[ClientCalls[i]].ret = Err(LOGGED_OUT_ERR)

\* C4: whatever the interleaving of the callers of loadSession, the persisted session
\* is installed into the auth client at most once.
C4_SessionInstalledOnce == installs <= 1

\* C5: when a signin that succeeded, or a logout, and everything pending have
\* completed, the value stored under the session key is the live session: the
\* signed-in session after the signin, no session after the logout.
C5_PersistedSessionIsLive ==
  (/\ calls > 0
   /\ Quiet
   /\ Latest.op \in {"signin", "logout"}
   /\ Latest.ret = OkBool(TRUE)) =>
      IF live = "none"
      THEN ~Truthy(storage[SUPABASE_SESSION_KEY])
      ELSE storage[SUPABASE_SESSION_KEY] = SessionCell(live)

\* the searchTemplates calls made so far, and the one made last
Searches == {p \in 1..Len(procs) : procs[p].op = "searchTemplates"}
NewestSearch == CHOOSE p \in Searches : \A q \in Searches : q <= p

\* the step in which the search p resolves with a result
SearchResolves(p) ==
  /\ At(p, "searchTemplates", "all")
  /\ procs'[p].stack = <<>>
  /\ procs'[p].ret.k = "ok"

\* C6 as stated: a searchTemplates call whose templates and tags resolve after a newer
\* call has been issued resolves to the canceled marker, equal query strings included.
C6_EarlierSearchCanceled ==
  [][\A p \in 1..Len(procs) :
       (SearchResolves(p) /\ p # NewestSearch) => procs'[p].ret.query = SEARCH_CANCELED]_vars

\* C6 amended: when its templates and tags have resolved, a searchTemplates call
\* resolves to the canceled marker if its query string differs from the query string
\* of the call issued last, and to the ranking of its own query otherwise, be it the
\* last call or an earlier one with the same query string.
C6_CanceledWhenQueryDiffers ==
  [][\A p \in 1..Len(procs) :
       SearchResolves(p) =>
         procs'[p].ret.query =
           IF procs[p].arg # procs[NewestSearch].arg THEN SEARCH_CANCELED ELSE procs[p].arg]_vars

\* an earlier search has been canceled and the newest has returned its ranking
C6_Witness ==
  \E p \in Searches :
    /\ p # NewestSearch
    /\ procs[p].stack = <<>>
    /\ procs[p].ret.query = SEARCH_CANCELED
    /\ procs[NewestSearch].stack = <<>>
    /\ procs[NewestSearch].ret.query = procs[NewestSearch].arg

\* the client's getTemplates call has returned the list of a free user
FreeTemplates ==
  /\ Len(procs) > 0
  /\ procs[1].op = "getTemplates"
  /\ procs[1].stack = <<>>
  /\ procs[1].ret.k = "ok"
  /\ procs[1].last.free = "yes"

Returned9 == procs[1].ret.templates
Owned9 == storage["templatesOwned"].rows

\* C9: the list getTemplates returns to a free user holds no record that came from
\* templatesShared or templatesEveryone, has at most templatesFreeLimit elements, is
\* in ascending order of creation date, and, when more owned templates exist than the
\* limit, consists of exactly that many owned templates none of which was created
\* later than an owned template left out.
C9_FreeListOwnedSortedLimited ==
  FreeTemplates =>
    /\ \A i \in 1..Len(Returned9) :
         /\ Returned9[i].src = "templatesOwned"
         /\ \E j \in 1..Len(Owned9) :
              Owned9[j].id = Returned9[i].id /\ Owned9[j].created = Returned9[i].created
    /\ Len(Returned9) <= templatesFreeLimit
    /\ \A i \in 1..Len(Returned9) : \A j \in i..Len(Returned9) :
         DateOf(Returned9[i]) <= DateOf(Returned9[j])
    /\ Len(Owned9) > templatesFreeLimit =>
         /\ Len(Returned9) = templatesFreeLimit
         /\ \A i \in 1..Len(Returned9) : \A j \in 1..Len(Owned9) :
              (\A k \in 1..Len(Returned9) : Returned9[k].id # Owned9[j].id) =>
                 DateOf(Returned9[i]) <= DateOf(Owned9[j])

\* a free user with more owned templates than the limit, stored newest first, and the
\* shared collections in the cache, got the limit's worth of them, oldest first
C9_Witness ==
  /\ FreeTemplates
  /\ Len(Owned9) > templatesFreeLimit
  /\ Truthy(storage["templatesShared"])
  /\ Truthy(storage["templatesEveryone"])
  /\ Len(Returned9) = templatesFreeLimit
  /\ Returned9[1].id = Owned9[Len(Owned9)].id

(***************************************************************************)
(* Claims checked under SpecAutosync.                                      *)
(***************************************************************************)
\* the autosync calls that have returned
AutosyncDone ==
  {p \in 1..Len(procs) : procs[p].op = "autosync" /\ procs[p].stack = <<>>}

\* autosync p called refetchCollections
Refetched(p) == procs[p].last.pc = "refetch"

\* C11: autosync(timeout) calls refetchCollections, with its default argument of
\* all collections, exactly when the time elapsed since a stored lastSync is
\* strictly greater than timeout; otherwise it returns at once, and the storage,
\* the notifications and the remote queries are as they were when it was called.
C11_SyncsOnlyPastTimeout ==
  /\ \A p \in AutosyncDone :
       LET fr == procs[p].last
       IN fr.lastSync # Undefined =>
            /\ Refetched(p) <=> fr.now - fr.lastSync > fr.timeout
            /\ ~Refetched(p) =>
                 storage = before /\ events = NoEvents /\ fetches = <<>> /\ Len(procs) = 1
  /\ \A p \in 1..Len(procs) :
       procs[p].op = "autosync" /\ Len(procs[p].stack) > 1 =>
         /\ procs[p].stack[1].pc = "refetch"
         /\ procs[p].stack[2].fn = "refetchCollections"
         /\ procs[p].stack[2].collections = <<>>

\* autosync returned without a refetch when exactly the timeout had elapsed
C11_Witness ==
  \E p \in AutosyncDone :
    LET fr == procs[p].last
    IN fr.lastSync # Undefined /\ fr.now - fr.lastSync = fr.timeout /\ ~Refetched(p)

\* C12: when the extension data holds no lastSync, autosync refetches whatever
\* the timeout.
C12_AbsentLastSyncRefetches ==
  \A p \in AutosyncDone : procs[p].last.lastSync = Undefined => Refetched(p)

(***************************************************************************)
(* Claims checked under SpecCache.                                         *)
(***************************************************************************)
\* a fetch of coll has still to write the collection
Pending(coll) ==
  {f \in DOMAIN fetches : fetches[f].coll = coll /\ fetches[f].st \in {"query", "set"}}

\* p called getCollection when no request was in progress, and the storage holds
\* the collection while no fetch of it is pending
CachedCall(p) ==
  /\ At(p, "getCollection", "get")
  /\ Truthy(storage[Top(p).coll])
  /\ Pending(Top(p).coll) = {}

\* C13: a getCollection call for a collection that the storage holds, with no
\* fetch of it in flight, finds the stored value unchanged however long its read
\* takes, and its only step returns exactly that value: the storage (lastSync
\* included), the notifications, the fetches and the in-flight markers stay as
\* they are, whatever the time and however stale the value.
C13_CacheHitIsAuthoritative ==
  [][\A p \in 1..Len(procs) :
       CachedCall(p) =>
         /\ storage'[Top(p).coll] = storage[Top(p).coll]
         /\ procs'[p] = procs[p] => CachedCall(p)'
         /\ procs'[p] # procs[p] =>
              /\ procs'[p].stack = <<>>
              /\ procs'[p].ret = OkData(storage[Top(p).coll])
              /\ storage' = storage
              /\ events' = events
              /\ fetches' = fetches
              /\ collectionRequestQueue' = collectionRequestQueue]_vars

\* a call returned the cached templatesOwned of version 0 from its read, later than
\* the cache was filled and after the remote data had changed, with lastSync still 0
C13_Witness ==
  \E p \in 1..Len(procs) :
    /\ procs[p].stack = <<>>
    /\ procs[p].last.pc = "get"
    /\ procs[p].ret = OkData(storage["templatesOwned"])
    /\ procs[p].ret.data.ver < remote.ver
    /\ clock = MaxClock
    /\ getExtensionData(storage).lastSync = 0
    /\ fetches = <<>>

(***************************************************************************)
(* Claims checked under SpecFetch: the order of a cache miss.              *)
(***************************************************************************)
\* the fetches whose query has succeeded and whose mapping is being persisted,
\* announced and stamped
Refreshing == {f \in DOMAIN fetches : fetches[f].st \in {"set", "stamp"}}

\* C14: after a successful query the in-flight marker is cleared last: while the
\* mapping is not yet persisted, and until lastSync is stamped, the marker of
\* the collection is still set, so that no call starts a second remote fetch of
\* the collection in between.
C14_MarkerClearedLast ==
  \A f \in Refreshing :
    /\ collectionRequestQueue[fetches[f].coll] # 0
    /\ \A g \in DOMAIN fetches : fetches[g].coll = fetches[f].coll => g <= f

(***************************************************************************)
(* Claims checked under SpecSync: the automatic logout of getSignedInUser. *)
(***************************************************************************)
\* p's getSignedInUser emits logout in this step
EmitsLogout(p) ==
  /\ At(p, "getSignedInUser", "clearUser")
  /\ procs'[p] # procs[p]
  /\ events'["logout"] = events["logout"] + 1

\* C15: when getSignedInUser finds a cached user and no live session, the cache
\* has been cleared, the words count written back and the cached user emptied by
\* the time the logout notification is emitted.
C15_CacheClearedBeforeLogoutNotice ==
  [][\A p \in 1..Len(procs) :
       EmitsLogout(p) =>
         /\ \A c \in Collections : ~Truthy(storage'[c])
         /\ getExtensionData(storage').words = getExtensionData(before).words
         /\ storage'[globalUserKey] = UserCell("none", "none")]_vars

(***************************************************************************)
(* Claims checked under SpecIdentity.                                      *)
(***************************************************************************)
\* the client's getSignedInUser call has returned a user
Resolved ==
  /\ procs # <<>>
  /\ procs[1].op = "getSignedInUser"
  /\ procs[1].stack = <<>>
  /\ procs[1].ret.k = "ok"

\* the cached user that call read
CachedUser == procs[1].last.user

\* the customer the call is to return: the cached one if the user's record of the
\* users collection still lists it, otherwise the first one listed
ExpectedCustomer ==
  LET members == storage["users"].customers
  IN IF \E i \in 1..Len(members) : members[i] = CachedUser.customer
     THEN CachedUser.customer
     ELSE members[1]

\* C16 as stated: the call returns the cached id with the expected customer, and
\* whenever that customer differs from the cached one, a cached customer that is
\* unset included, the cached user holds it once nothing is pending.
C16_ChangedCustomerPersisted ==
  Resolved =>
    /\ procs[1].ret.user = User(CachedUser.id, ExpectedCustomer)
    /\ CachedUser.id = live
    /\ (Quiet /\ ExpectedCustomer # CachedUser.customer) =>
         storage[globalUserKey] = UserCell(CachedUser.id, ExpectedCustomer)

\* C16, amended: the call returns the cached id with the expected customer; when
\* the cached customer is set and is no longer a membership, the cached user holds
\* the returned customer once nothing is pending; when the cached customer is
\* unset, or is still a membership, the cached user stays as it was.
C16_ReplacedCustomerPersisted ==
  Resolved =>
    /\ procs[1].ret.user = User(CachedUser.id, ExpectedCustomer)
    /\ CachedUser.id = live
    /\ Quiet =>
         storage[globalUserKey] =
           IF CachedUser.customer # "none" /\ ExpectedCustomer # CachedUser.customer
           THEN UserCell(CachedUser.id, ExpectedCustomer)
           ELSE before[globalUserKey]

\* u1 was cached with customer c1, is a member of c2 only, and is now cached with c2
C16_Witness ==
  /\ Resolved
  /\ Quiet
  /\ CachedUser = User("u1", "c1")
  /\ storage["users"].customers = <<"c2">>
  /\ procs[1].ret.user = User("u1", "c2")
  /\ storage[globalUserKey] = UserCell("u1", "c2")

\* the id of the user cached when the client's latest call started
CachedId == IF Truthy(before[globalUserKey]) THEN before[globalUserKey].id ELSE "none"

\* the client's getSignedInUser call runs, or has run, with a live session of
\* another user than the cached one, or with no user cached
Mismatch ==
  /\ procs # <<>>
  /\ procs[1].op = "getSignedInUser"
  /\ live # "none"
  /\ CachedId # live

\* C17: with a live session whose user is not the cached user (or with no user
\* cached) getSignedInUser fails with logged-out, and from its call on the whole
\* storage (cached user, collections, extension data) is as it was, no query is
\* issued, nothing is notified and no other call chain is started.
C17_MismatchChangesNothing ==
  Mismatch =>
    /\ storage = before
    /\ fetches = <<>>
    /\ events = NoEvents
    /\ Len(procs) = 1
    /\ collectionRequestQueue = [c \in Collections |-> 0]
    /\ procs[1].stack = <<>> => procs[1].ret = Err(LOGGED_OUT_ERR)

\* u1 with its tags is cached, the live session is u2's, and the call has failed
C17_Witness ==
  /\ Mismatch
  /\ procs[1].stack = <<>>
  /\ procs[1].ret = Err(LOGGED_OUT_ERR)
  /\ live = "u2"
  /\ storage[globalUserKey] = UserCell("u1", "c1")
  /\ Truthy(storage["tags"])

(***************************************************************************)
(* Claims checked under SpecTemplates: the merge.                          *)
(***************************************************************************)
\* getTemplates has returned the merged list of a user of a paid customer
PaidTemplates ==
  /\ Len(procs) > 0
  /\ procs[1].op = "getTemplates"
  /\ procs[1].stack = <<>>
  /\ procs[1].ret.k = "ok"
  /\ procs[1].last.free = "no"

\* the cached collection, in merge order, that is the first to hold template id
EarliestSource(id) ==
  LET holds(c) == \E j \in 1..Len(storage[c].rows) : storage[c].rows[j].id = id
  IN IF holds("templatesOwned") THEN "templatesOwned"
     ELSE IF holds("templatesShared") THEN "templatesShared"
     ELSE "templatesEveryone"

\* C18: the list returned to a paid user holds every cached template id once, with
\* the record of the earliest of templatesOwned, templatesShared, templatesEveryone
\* that holds the id.
C18_EarlierSourceKept ==
  PaidTemplates =>
    LET list == procs[1].ret.templates
    IN /\ \A i \in 1..Len(list) : \A j \in 1..Len(list) : list[i].id = list[j].id => i = j
       /\ \A i \in 1..Len(list) :
            LET rows == storage[EarliestSource(list[i].id)].rows
            IN /\ list[i].src = EarliestSource(list[i].id)
               /\ \E j \in 1..Len(rows) :
                    rows[j].id = list[i].id /\ rows[j].created = list[i].created

(***************************************************************************)
(* Claims checked under SpecSwitch.                                        *)
(***************************************************************************)
TenantCollections == {"tags", "templatesOwned", "templatesShared", "templatesEveryone"}

\* the cached collection was queried for the cached user's customer (and, for
\* templates, for the cached user's id)
OfCachedUser(coll) ==
  /\ Truthy(storage[globalUserKey])
  /\ storage[coll].cust = storage[globalUserKey].customer
  /\ coll # "tags" => storage[coll].uid = storage[globalUserKey].id

\* C19: whenever nothing is pending, every cached collection of the tenant holds
\* the result of a query for the cached user's id and customer; so once
\* setActiveCustomer and its refetch are through, no collection holds records
\* of the previous customer.
C19_CacheOfCurrentCustomer ==
  Quiet => \A coll \in TenantCollections : Truthy(storage[coll]) => OfCachedUser(coll)

(***************************************************************************)
(* Claims checked under SpecSignOut.                                       *)
(***************************************************************************)
\* logout has returned and nothing is pending
LoggedOutQuiet ==
  /\ Quiet
  /\ \E p \in 1..Len(procs) : procs[p].op = "logout" /\ procs[p].ret = OkBool(TRUE)

\* C20: once the logout and everything that was pending have completed, all six
\* collections are empty: a fetch that was in flight when the cache was cleared
\* has not written its result back.
C20_NoRepopulationAfterLogout ==
  LoggedOutQuiet => \A c \in Collections : ~Truthy(storage[c])

====
